---- MODULE Spec2Model ----
(***************************************************************************)
(* A model of the pparser library: the Lexer of lexer.hpp and the          *)
(* Command / ArgumentParser matcher of pparser.hpp.                        *)
(*                                                                         *)
(* Strings are sequences of one-character strings, so that substr, rfind,  *)
(* the per-character cluster loop and the lexer's cursor are computed as   *)
(* the code computes them.                                                 *)
(***************************************************************************)
EXTENDS Integers, Sequences, FiniteSets, TLC

VARIABLES
  root,        \* ArgumentParser::rootCommand_ : the Command tree
  regs,        \* number of registration calls that changed the tree
  lastCall,    \* outcome of the last API call: "none" | "accepted" | "rejected" | "parse"
  phase,       \* "ready" | "matching" | "done"   (ArgumentParser::parse)
  steps,       \* main-loop iterations executed by the parse in progress
  argv,        \* the argv words of the parse in progress
  tokens,      \* the token vector handed to Command::parse (TOK_EOF removed)
  cursor,      \* tokenIndex / currentTokenIndex, shared by reference
  path,        \* names of the commands whose parse() is on the call stack below the root
  result,      \* the ParseResult of the innermost active parse(), then the returned one
  seen,        \* keywordArgsSeen of the innermost active parse()
  posIdx,      \* currentPositionalArgIndex of the innermost active parse()
  escaped,     \* an exception left Command::parse (caught by ArgumentParser::parse)
  handlerLog,  \* commands whose handler has been invoked during this parse
  code,        \* Source::code of the Lexer run
  lexPos,      \* SourceIterator::pos
  lexTokens,   \* Lexer::tokens
  lexState     \* "lexing" | "done" | a LexErrorKind | "RUNTIME_ERROR"

vars == <<root, regs, lastCall, phase, steps, argv, tokens, cursor, path, result, seen,
          posIdx, escaped, handlerLog, code, lexPos, lexTokens, lexState>>

parseVars == <<phase, steps, argv, tokens, cursor, path, result, seen, posIdx, escaped,
               handlerLog>>

treeVars == <<root, regs, lastCall>>

lexVars == <<code, lexPos, lexTokens, lexState>>

-----------------------------------------------------------------------------
(* Bounds of the model *)

MaxRegs == 2

MaxWords == 3

MaxSteps == 7

MaxLexLen == 4

\* registration calls that change the tree, in the registration specification
MaxCalls == 3

\* leading zeros of the longest integer literal, in the specification of long literals
MaxLongZeros == 66

\* characters after the opening quote, in the specification of string literals
MaxBodyLen == 4

-----------------------------------------------------------------------------
(* Characters and strings *)

NUL == "NUL"

Letters == {"a", "b", "c", "d", "e", "f", "g", "h", "i", "j", "k", "l", "m",
            "n", "o", "p", "q", "r", "s", "t", "u", "v", "w", "x", "y", "z",
            "A", "B", "C", "D", "E", "F", "X"}

DecDigits == {"0", "1", "2", "3", "4", "5", "6", "7", "8", "9"}

RECURSIVE Concat(_)
Concat(ss) == IF ss = <<>> THEN <<>> ELSE Head(ss) \o Concat(Tail(ss))

\* std::string::substr(n)
Substr(s, n) == IF n >= Len(s) THEN <<>> ELSE SubSeq(s, n + 1, Len(s))

\* s.rfind(p, 0) == 0
StartsWith(s, p) == Len(s) >= Len(p) /\ SubSeq(s, 1, Len(p)) = p

Contains(s, p) ==
  \E i \in 0..(Len(s) - Len(p)) : SubSeq(s, i + 1, i + Len(p)) = p

Range(f) == {f[i] : i \in DOMAIN f}

-----------------------------------------------------------------------------
(* Lexer: character classes *)

isAsciiDecDigit(c) == c \in DecDigits

isAsciiHexDigit(c) ==
  c \in DecDigits \cup {"a", "b", "c", "d", "e", "f", "A", "B", "C", "D", "E", "F"}

isAsciiBinDigit(c) == c \in {"0", "1"}

isIdentStart(c) == c \in Letters \/ c = "$" \/ c = "_" \/ c = "/"

isIdentCont(c) == isIdentStart(c) \/ isAsciiDecDigit(c) \/ c = "." \/ c = "/"

isDigitOrUnderscore(c, base) ==
  IF c = "_" THEN TRUE
  ELSE CASE base = 10 -> isAsciiDecDigit(c)
         [] base = 16 -> isAsciiHexDigit(c)
         [] base = 2  -> isAsciiBinDigit(c)
         [] OTHER     -> FALSE

\* SourceIterator::current / peek / peek2 at position p (0-based)
Current(src, p) == IF p < Len(src) THEN src[p + 1] ELSE NUL

Peek(src, p) == IF p + 1 < Len(src) THEN src[p + 2] ELSE NUL

Peek2(src, p) == IF p + 2 < Len(src) THEN src[p + 3] ELSE NUL

\* SourceIterator::next: the position after one advance
NextPos(src, p) == IF p < Len(src) THEN p + 1 ELSE p

Slice(src, from, to) == IF to <= from THEN <<>> ELSE SubSeq(src, from + 1, to)

-----------------------------------------------------------------------------
(* Lexer: tokens *)

DEC == 10

BIN == 2

HEX == 16

\* Token(kind, span): the simple-token constructor zeroes the int payload
Token(kind, s, e) ==
  [kind |-> kind, str |-> <<>>, value |-> 0, base |-> DEC, hasExp |-> FALSE,
   span |-> <<s, e>>]

makeId(text, s, e) == [Token("TOK_ID", s, e) EXCEPT !.str = text]

makeShortFlag(text, s, e) == [Token("TOK_FLAG_SHORT", s, e) EXCEPT !.str = text]

makeLongFlag(text, s, e) == [Token("TOK_FLAG_LONG", s, e) EXCEPT !.str = text]

makeIntLit(v, base, s, e) ==
  [Token("TOK_INT_LIT", s, e) EXCEPT !.value = v, !.base = base]

\* the double is kept as the text handed to strtod
makeFloatLit(text, hasExp, s, e) ==
  [Token("TOK_FLOAT_LIT", s, e) EXCEPT !.str = text, !.hasExp = hasExp]

makeStrLit(raw, s, e) == [Token("TOK_STR_LIT", s, e) EXCEPT !.str = raw]

Keywords ==
  << <<<<"i","f">>, "TOK_IF">>, <<<<"e","l","s","e">>, "TOK_ELSE">>,
     <<<<"f","o","r">>, "TOK_FOR">>, <<<<"i","n">>, "TOK_IN">>,
     <<<<"w","h","i","l","e">>, "TOK_WHILE">>, <<<<"b","r","e","a","k">>, "TOK_BREAK">>,
     <<<<"r","e","t","u","r","n">>, "TOK_RETURN">>, <<<<"i","n","t">>, "TOK_INT">>,
     <<<<"b","o","o","l">>, "TOK_BOOL">>, <<<<"s","t","r","i","n","g">>, "TOK_STRING">>,
     <<<<"a","n","d">>, "TOK_AND">>, <<<<"o","r">>, "TOK_OR">>,
     <<<<"n","o","t">>, "TOK_NOT">>, <<<<"t","r","u","e">>, "TOK_TRUE">>,
     <<<<"f","a","l","s","e">>, "TOK_FALSE">> >>

LexErrorKinds == {"INVALID_CHAR", "UNCLOSED_STRING", "UNKNOWN_ESCAPE",
                  "INT_OUT_OF_RANGE", "INCOMPLETE_INT", "FLOAT_OUT_OF_RANGE",
                  "INVALID_FLOAT"}

\* what a lexing function hands back: a token and the cursor after it, or a throw
Lexed(tok, p) == [tok |-> tok, pos |-> p, err |-> "NONE"]

Throw(kind, p) == [tok |-> Token("TOK_EOF", p, p), pos |-> p, err |-> kind]

-----------------------------------------------------------------------------
(* Lexer: whitespace, identifiers, strings, flags *)

RECURSIVE SkipComment(_, _)
SkipComment(src, p) ==
  IF Current(src, p) = "\n" \/ Current(src, p) = NUL THEN p
  ELSE SkipComment(src, NextPos(src, p))

RECURSIVE eatWhitespaceAndComments(_, _)
eatWhitespaceAndComments(src, p) ==
  LET c == Current(src, p) IN
  IF c \in {" ", "\t", "\n", "\r"} THEN eatWhitespaceAndComments(src, NextPos(src, p))
  ELSE IF c = "/" /\ Peek(src, p) = "/"
       THEN eatWhitespaceAndComments(src, SkipComment(src, NextPos(src, NextPos(src, p))))
       ELSE p

RECURSIVE IdentEnd(_, _)
IdentEnd(src, p) == IF isIdentCont(Current(src, p)) THEN IdentEnd(src, NextPos(src, p)) ELSE p

lexIdentifierOrKeyword(src, start) ==
  LET endp == IdentEnd(src, NextPos(src, start))
      text == Slice(src, start, endp)
      hits == {i \in DOMAIN Keywords : Keywords[i][1] = text}
  IN IF hits # {}
     THEN Lexed(Token(Keywords[CHOOSE i \in hits : TRUE][2], start, endp), endp)
     ELSE Lexed(makeId(text, start, endp), endp)

\* StringBody that lets any character follow a backslash
RECURSIVE StringBody_AnyEscape(_, _, _)
StringBody_AnyEscape(src, start, p) ==
  LET c == Current(src, p) IN
  IF c = NUL THEN Throw("UNCLOSED_STRING", p)
  ELSE IF c = "\n" THEN Throw("UNCLOSED_STRING", p)
  ELSE IF c = "\"" THEN Lexed(makeStrLit(Slice(src, start + 1, p), start, NextPos(src, p)),
                              NextPos(src, p))
  ELSE IF c = "\\"
       THEN LET q == NextPos(src, p)
                esc == Current(src, q)
            IN IF esc = NUL \/ esc = "\n" THEN Throw("UNCLOSED_STRING", q)
               ELSE StringBody_AnyEscape(src, start, NextPos(src, q))
       ELSE StringBody_AnyEscape(src, start, NextPos(src, p))

\* the loop of lexString from position p (after the opening quote)
RECURSIVE StringBody(_, _, _)
StringBody(src, start, p) ==
  LET c == Current(src, p) IN
  IF c = NUL THEN Throw("UNCLOSED_STRING", p)
  ELSE IF c = "\n" THEN Throw("UNCLOSED_STRING", p)
  ELSE IF c = "\"" THEN Lexed(makeStrLit(Slice(src, start + 1, p), start, NextPos(src, p)),
                              NextPos(src, p))
  ELSE IF c = "\\"
       THEN LET q == NextPos(src, p)
                esc == Current(src, q)
            IN IF esc = NUL \/ esc = "\n" THEN Throw("UNCLOSED_STRING", q)
               ELSE IF esc \in {"n", "r", "t", "\\", "\"", "0"}
                    THEN StringBody(src, start, NextPos(src, q))
                    ELSE Throw("UNKNOWN_ESCAPE", q)
       ELSE StringBody(src, start, NextPos(src, p))

lexString(src, start) == StringBody(src, start, NextPos(src, start))

RECURSIVE ShortFlagEnd(_, _)
ShortFlagEnd(src, p) ==
  IF isIdentCont(Current(src, p)) \/ isAsciiDecDigit(Current(src, p))
  THEN ShortFlagEnd(src, NextPos(src, p)) ELSE p

\* p is the position after '-'
lexShortFlag(src, start, p) ==
  LET endp == ShortFlagEnd(src, p) IN
  IF endp - p = 0 THEN Throw("RUNTIME_ERROR", p)
  ELSE Lexed(makeShortFlag(Slice(src, p, endp), start, endp), endp)

\* p is the position after '--'
lexLongFlag(src, start, p) ==
  LET endp == IdentEnd(src, p) IN
  IF endp - p = 0 THEN Throw("INVALID_CHAR", p)
  ELSE Lexed(makeLongFlag(Slice(src, p, endp), start, endp), endp)


-----------------------------------------------------------------------------
(* Lexer: numbers *)

\* sizeof(num_buffer) - 1
NumBufferMax == 63

\* long long is narrowed to the widest integer TLC holds; the ERANGE test of
\* strtoll is kept against this limit
LLongMax == 2147483647

\* the exponent beyond which strtod reports ERANGE for a non-zero mantissa
DoubleMaxExp10 == 308

addToBuffer(buf, ch) == IF Len(buf) < NumBufferMax THEN Append(buf, ch) ELSE buf

DigitVal(c) ==
  CASE c = "0" -> 0 [] c = "1" -> 1 [] c = "2" -> 2 [] c = "3" -> 3 [] c = "4" -> 4
    [] c = "5" -> 5 [] c = "6" -> 6 [] c = "7" -> 7 [] c = "8" -> 8 [] c = "9" -> 9
    [] c \in {"a", "A"} -> 10 [] c \in {"b", "B"} -> 11 [] c \in {"c", "C"} -> 12
    [] c \in {"d", "D"} -> 13 [] c \in {"e", "E"} -> 14 [] c \in {"f", "F"} -> 15
    [] OTHER -> 99

\* strtoll(digits, &endptr, base): -1 stands for errno == ERANGE
RECURSIVE StrToLL(_, _, _)
StrToLL(digits, base, acc) ==
  IF digits = <<>> THEN acc
  ELSE LET d == DigitVal(Head(digits)) IN
       IF acc > (LLongMax - d) \div base THEN -1
       ELSE StrToLL(Tail(digits), base, acc * base + d)

\* one of the digit loops of lexNumber: while (isDigitOrUnderscore(current(), base))
RECURSIVE DigitRun(_, _, _, _, _)
DigitRun(src, start, p, base, buf) ==
  IF isDigitOrUnderscore(Current(src, p), base)
  THEN LET b1 == IF Len(buf) = 0 /\ start = p - 1 THEN addToBuffer(buf, src[start + 1]) ELSE buf
           b2 == IF Current(src, p) # "_" THEN addToBuffer(b1, Current(src, p)) ELSE b1
       IN IF Len(b2) <= NumBufferMax   \* buffer_idx never passes buffer_max_idx
          THEN DigitRun(src, start, NextPos(src, p), base, b2)
          ELSE [pos |-> p, buf |-> b2]
  ELSE [pos |-> p, buf |-> buf]

\* errno == ERANGE after strtod: the literal's magnitude leaves the double range
FloatOutOfRange(buf) ==
  LET epos == {i \in DOMAIN buf : buf[i] \in {"e", "E"}} IN
  IF epos = {} THEN FALSE
  ELSE LET i == CHOOSE j \in epos : TRUE
           mant == SubSeq(buf, 1, i - 1)
           rest == SubSeq(buf, i + 1, Len(buf))
           digs == IF rest # <<>> /\ Head(rest) \in {"+", "-"} THEN Tail(rest) ELSE rest
           ev == StrToLL(digs, 10, 0)
       IN (\E k \in DOMAIN mant : mant[k] \in DecDigits \ {"0"})
          /\ (ev = -1 \/ ev > DoubleMaxExp10)

\* the tail of lexNumber: the conversion of the accumulated buffer
ConvertNumber(src, start, p, base, buf, isFloat, hasExp) ==
  IF base # DEC /\ Len(buf) <= 2 THEN Throw("INCOMPLETE_INT", p)
  ELSE IF isFloat
       THEN IF FloatOutOfRange(buf) THEN Throw("FLOAT_OUT_OF_RANGE", p)
            ELSE IF buf[Len(buf)] \notin DecDigits THEN Throw("INVALID_FLOAT", p)
            ELSE Lexed(makeFloatLit(buf, hasExp, start, p), p)
       ELSE LET digits == IF base # DEC THEN Substr(buf, 2) ELSE buf
                v == StrToLL(digits, base, 0)
            IN IF digits = <<>> THEN Throw("INCOMPLETE_INT", p)
               ELSE IF v = -1 THEN Throw("INT_OUT_OF_RANGE", p)
               ELSE Lexed(makeIntLit(v, base, start, p), p)

\* the float part of lexNumber (base DEC): fraction, then exponent
FloatParts(src, start, p, buf) ==
  LET hasFrac == Current(src, p) = "." /\ isAsciiDecDigit(Peek(src, p))
      frac == IF hasFrac
              THEN DigitRun(src, start, NextPos(src, p), DEC, addToBuffer(buf, "."))
              ELSE [pos |-> p, buf |-> buf]
      q == frac.pos
      c == Current(src, q)
      hasExp == c \in {"e", "E"}
                /\ (isAsciiDecDigit(Peek(src, q))
                    \/ (Peek(src, q) \in {"+", "-"} /\ isAsciiDecDigit(Peek2(src, q))))
      q1 == NextPos(src, q)
      signed == Current(src, q1) \in {"+", "-"}
      b1 == addToBuffer(frac.buf, c)
      b2 == IF signed THEN addToBuffer(b1, Current(src, q1)) ELSE b1
      expo == IF hasExp
              THEN DigitRun(src, start, IF signed THEN NextPos(src, q1) ELSE q1, DEC, b2)
              ELSE frac
  IN ConvertNumber(src, start, expo.pos, DEC, expo.buf, hasFrac \/ hasExp, hasExp)

lexNumber(src, start) ==
  LET zero == Current(src, start) = "0"
      p1 == IF zero THEN NextPos(src, start) ELSE start
      b1 == IF zero THEN addToBuffer(<<>>, "0") ELSE <<>>
      pfx == Current(src, p1)
      base == IF zero /\ pfx \in {"x", "X"} THEN HEX
              ELSE IF zero /\ pfx \in {"b", "B"} THEN BIN ELSE DEC
      p2 == IF base # DEC THEN NextPos(src, p1) ELSE p1
      b2 == IF base # DEC THEN addToBuffer(b1, pfx) ELSE b1
  IN IF base = HEX /\ ~isAsciiHexDigit(Current(src, p2)) THEN Throw("INCOMPLETE_INT", p2)
     ELSE IF base = BIN /\ ~isAsciiBinDigit(Current(src, p2)) THEN Throw("INCOMPLETE_INT", p2)
     ELSE IF zero /\ base = DEC /\ ~isAsciiDecDigit(pfx) /\ pfx \notin {".", "e", "E"}
          THEN Lexed(makeIntLit(0, DEC, start, p1), p1)
     ELSE LET run == DigitRun(src, start, p2, base, b2)
              b3 == IF Len(run.buf) = 0 /\ start = run.pos - 1
                    THEN addToBuffer(run.buf, src[start + 1]) ELSE run.buf
          IN IF base = DEC THEN FloatParts(src, start, run.pos, b3)
             ELSE IF Current(src, run.pos) \in {".", "e", "E"}
                  THEN Throw("INVALID_CHAR", run.pos)
                  ELSE ConvertNumber(src, start, run.pos, base, b3, FALSE, FALSE)

-----------------------------------------------------------------------------
(* Lexer: nextToken, lexAll, tokenize *)

SingleCharTokens ==
  [c \in {"+", "*", "%", "(", ")", "{", "}", "[", "]", ";", ":", ","} |->
     CASE c = "+" -> "TOK_PLUS" [] c = "*" -> "TOK_TIMES" [] c = "%" -> "TOK_MODULO"
       [] c = "(" -> "TOK_LPAREN" [] c = ")" -> "TOK_RPAREN" [] c = "{" -> "TOK_LBRACE"
       [] c = "}" -> "TOK_RBRACE" [] c = "[" -> "TOK_LBRACKET" [] c = "]" -> "TOK_RBRACKET"
       [] c = ";" -> "TOK_SEMI" [] c = ":" -> "TOK_COLON" [] c = "," -> "TOK_COMMA"]

\* a '-' that yields a token without being consumed
lexMinus_NotConsumed(src, start) == Lexed(Token("TOK_MINUS", start, start), start)

\* lexMinus that takes every "--" not followed by an identifier start as the separator
lexMinus_SeparatorBeforeDigit(src, start) ==
  LET p1 == NextPos(src, start) IN
  IF Current(src, p1) = "-"
  THEN LET p2 == NextPos(src, p1) IN
       IF isIdentStart(Current(src, p2)) THEN lexLongFlag(src, start, p2)
       ELSE Lexed(Token("TOK_DOUBLE_MINUS", start, p2), p2)
  ELSE IF isIdentStart(Current(src, p1)) \/ isAsciiDecDigit(Current(src, p1))
       THEN lexShortFlag(src, start, p1)
       ELSE Lexed(Token("TOK_MINUS", start, p1), p1)

\* case '-' of nextToken
lexMinus(src, start) ==
  LET p1 == NextPos(src, start) IN
  IF Current(src, p1) = "-"
  THEN LET p2 == NextPos(src, p1) IN
       IF isIdentStart(Current(src, p2)) THEN lexLongFlag(src, start, p2)
       ELSE IF ~isIdentCont(Current(src, p2)) /\ ~isAsciiDecDigit(Current(src, p2))
            THEN Lexed(Token("TOK_DOUBLE_MINUS", start, p2), p2)
            ELSE Throw("INVALID_CHAR", p2)
  ELSE IF isIdentStart(Current(src, p1)) \/ isAsciiDecDigit(Current(src, p1))
       THEN lexShortFlag(src, start, p1)
       ELSE Lexed(Token("TOK_MINUS", start, p1), p1)

\* the two-character operators of nextToken: '<' '>' '=' '!'
lexOperator(src, start) ==
  LET c == Current(src, start)
      p1 == NextPos(src, start)
      d == Current(src, p1)
      p2 == NextPos(src, p1)
  IN CASE c = "<" /\ d = "<" -> Lexed(Token("TOK_SHL", start, p2), p2)
       [] c = "<" /\ d = "=" -> Lexed(Token("TOK_LESS_EQ", start, p2), p2)
       [] c = "<" /\ d \notin {"<", "="} -> Lexed(Token("TOK_LESS", start, p1), p1)
       [] c = ">" /\ d = ">" -> Lexed(Token("TOK_SHR", start, p2), p2)
       [] c = ">" /\ d = "=" -> Lexed(Token("TOK_GREATER_EQ", start, p2), p2)
       [] c = ">" /\ d \notin {">", "="} -> Lexed(Token("TOK_GREATER", start, p1), p1)
       [] c = "=" /\ d = "=" -> Lexed(Token("TOK_EQ", start, p2), p2)
       [] c = "=" /\ d # "=" -> Lexed(Token("TOK_ASSIGN", start, p1), p1)
       [] c = "!" /\ d = "=" -> Lexed(Token("TOK_NOT_EQ", start, p2), p2)
       [] c = "!" /\ d # "=" -> Lexed(Token("TOK_NOT", start, p1), p1)

nextToken(src, start) ==
  LET c == Current(src, start) IN
  IF c = NUL THEN Lexed(Token("TOK_EOF", start, start), start)
  ELSE IF c \in DOMAIN SingleCharTokens
       THEN Lexed(Token(SingleCharTokens[c], start, NextPos(src, start)), NextPos(src, start))
  ELSE IF c = "-" THEN lexMinus(src, start)
  ELSE IF c = "/"
       THEN IF isIdentCont(Peek(src, start)) THEN lexIdentifierOrKeyword(src, start)
            ELSE Lexed(Token("TOK_DIVIDE", start, NextPos(src, start)), NextPos(src, start))
  ELSE IF c \in {"<", ">", "=", "!"} THEN lexOperator(src, start)
  ELSE IF c = "\"" THEN lexString(src, start)
  ELSE IF c \in DecDigits THEN lexNumber(src, start)
  ELSE IF isIdentStart(c) THEN lexIdentifierOrKeyword(src, start)
  ELSE Throw("INVALID_CHAR", start)

\* one iteration of lexAll's loop
LexStep(src, p) == nextToken(src, eatWhitespaceAndComments(src, p))

\* lexAll run to its end: the tokens, or the error thrown
RECURSIVE lexAll(_, _, _)
lexAll(src, p, acc) ==
  LET r == LexStep(src, p) IN
  IF r.err # "NONE" THEN [tokens |-> acc, err |-> r.err]
  ELSE IF r.tok.kind = "TOK_EOF" THEN [tokens |-> Append(acc, r.tok), err |-> "NONE"]
  ELSE lexAll(src, r.pos, Append(acc, r.tok))

tokenize(src) == lexAll(src, 0, <<>>)


-----------------------------------------------------------------------------
(* ArgValue: the tagged union; the fields of the inactive members are zeroed *)

ArgValueOf(kind, b, i, d, str, sv) ==
  [kind |-> kind, b |-> b, i |-> i, d |-> d, s |-> str, sv |-> sv]

AVNone == ArgValueOf("AVK_NONE", FALSE, 0, <<>>, <<>>, <<>>)

AVBool(x) == ArgValueOf("AVK_BOOL", x, 0, <<>>, <<>>, <<>>)

AVInt(n) == ArgValueOf("AVK_INT", FALSE, n, <<>>, <<>>, <<>>)

AVDouble(t) == ArgValueOf("AVK_DOUBLE", FALSE, 0, t, <<>>, <<>>)

AVString(str) == ArgValueOf("AVK_STRING", FALSE, 0, <<>>, str, <<>>)

AVStringVector(list) == ArgValueOf("AVK_STRING_VECTOR", FALSE, 0, <<>>, <<>>, list)

\* ArgValue("true") / ArgValue("false"): a string literal argument selects the
\* bool constructor (pointer-to-bool is a standard conversion, std::string is a
\* user-defined one), and a non-null pointer converts to true
AVFromCharPtr == AVBool(TRUE)

isNone(v) == v.kind = "AVK_NONE"

isString(v) == v.kind = "AVK_STRING"

isStringVector(v) == v.kind = "AVK_STRING_VECTOR"

-----------------------------------------------------------------------------
(* ArgumentDef and Command *)

ArgumentDef(n, sn, ln, t, req, defVal, helpFlag) ==
  [name |-> n, shortName |-> sn, longName |-> ln, type |-> t, required |-> req,
   defaultValue |-> defVal, isHelpFlag |-> helpFlag]

getDisplayName(arg) ==
  LET d1 == arg.shortName
      d2 == IF arg.longName # <<>>
            THEN (IF d1 # <<>> THEN d1 \o <<",", " ">> ELSE d1) \o arg.longName
            ELSE d1
      d3 == IF arg.type \notin {"ARGTYPE_FLAG", "ARGTYPE_POSITIONAL"}
            THEN d2 \o <<" ", "<", "v", "a", "l", "u", "e", ">">>
                    \o (IF arg.type = "ARGTYPE_MULTIPLE" THEN <<".", ".", ".">> ELSE <<>>)
            ELSE d2
  IN d3

s_help == <<"h", "e", "l", "p">>

HelpDef ==
  ArgumentDef(s_help, <<"-", "h">>, <<"-", "-">> \o s_help, "ARGTYPE_FLAG", FALSE,
              AVBool(FALSE), TRUE)

\* ensureHelpArgument that adds the help argument without looking for one
ensureHelpArgument_Always(cmd) == [cmd EXCEPT !.keywordArgs = Append(@, HelpDef)]

ensureHelpArgument(cmd) ==
  IF \E i \in DOMAIN cmd.keywordArgs : cmd.keywordArgs[i].name = s_help THEN cmd
  ELSE [cmd EXCEPT !.keywordArgs = Append(@, HelpDef)]

\* Command::Command(name, help)
NewCommand(name) ==
  ensureHelpArgument([name |-> name, keywordArgs |-> <<>>, positionalArgs |-> <<>>,
                      subcommands |-> <<>>, aliases |-> <<>>, handler |-> <<>>])

hasAlias(cmd, alias) == \E i \in DOMAIN cmd.aliases : cmd.aliases[i] = alias

\* the outcome of a registration call: the command afterwards, and whether the call threw
Accepted(cmd) == [cmd |-> cmd, threw |-> FALSE]

Rejected(cmd) == [cmd |-> cmd, threw |-> TRUE]

s_no_ == <<"n", "o", "_">>

s_dd_no_ == <<"-", "-", "n", "o", "-">>

\* flagNameExists that compares the long names only
flagNameExists_LongOnly(kw, shortName, longName) ==
  \E i \in DOMAIN kw : longName # <<>> /\ kw[i].longName = longName

\* lines 451-458: an existing keyword argument has the short name or the long name
flagNameExists(kw, shortName, longName) ==
  \E i \in DOMAIN kw :
    \/ shortName # <<>> /\ kw[i].shortName = shortName
    \/ longName # <<>> /\ kw[i].longName = longName

\* addKeywordArg that never registers the companion negation argument
addKeywordArg_NeverNegates(cmd, name, shortName, longName, type, required, defaultValue) ==
  LET finalDefaultValue == IF type = "ARGTYPE_FLAG" /\ isNone(defaultValue)
                           THEN AVBool(FALSE) ELSE defaultValue
      kw == cmd.keywordArgs
  IN IF name = s_help THEN Rejected(cmd)
     ELSE IF StartsWith(name, s_no_) THEN Rejected(cmd)
     ELSE IF longName # <<>> /\ StartsWith(longName, s_dd_no_) THEN Rejected(cmd)
     ELSE IF \E i \in DOMAIN kw : kw[i].name = name THEN Rejected(cmd)
     ELSE IF flagNameExists(kw, shortName, longName) THEN Rejected(cmd)
     ELSE Accepted([cmd EXCEPT !.keywordArgs =
                      Append(@, ArgumentDef(name, shortName, longName, type, required,
                                            finalDefaultValue, FALSE))])

addKeywordArg(cmd, name, shortName, longName, type, required, defaultValue) ==
  LET finalDefaultValue == IF type = "ARGTYPE_FLAG" /\ isNone(defaultValue)
                           THEN AVBool(FALSE) ELSE defaultValue
      kw == cmd.keywordArgs
      withArg == [cmd EXCEPT !.keywordArgs =
                    Append(@, ArgumentDef(name, shortName, longName, type, required,
                                          finalDefaultValue, FALSE))]
      negate == type = "ARGTYPE_FLAG" /\ finalDefaultValue.kind = "AVK_BOOL"
                /\ finalDefaultValue.b /\ longName # <<>>
                /\ StartsWith(longName, <<"-", "-">>)
      noFlagName == s_no_ \o name
      noFlagLongName == s_dd_no_ \o Substr(longName, 2)
      kw2 == withArg.keywordArgs
  IN IF name = s_help THEN Rejected(cmd)
     ELSE IF StartsWith(name, s_no_) THEN Rejected(cmd)
     ELSE IF longName # <<>> /\ StartsWith(longName, s_dd_no_) THEN Rejected(cmd)
     ELSE IF \E i \in DOMAIN kw : kw[i].name = name THEN Rejected(cmd)
     ELSE IF flagNameExists(kw, shortName, longName) THEN Rejected(cmd)
     ELSE IF ~negate THEN Accepted(withArg)
     ELSE IF \E i \in DOMAIN kw2 : kw2[i].name = noFlagName THEN Rejected(withArg)
     ELSE IF \E i \in DOMAIN kw2 : kw2[i].longName = noFlagLongName THEN Rejected(withArg)
     ELSE Accepted([withArg EXCEPT !.keywordArgs =
                      Append(@, ArgumentDef(noFlagName, <<>>, noFlagLongName,
                                            "ARGTYPE_FLAG", FALSE, AVBool(FALSE), FALSE))])

addPositionalArg(cmd, name, type, required, defaultValue) ==
  IF type = "ARGTYPE_FLAG" THEN Rejected(cmd)
  ELSE IF \E i \in DOMAIN cmd.positionalArgs : cmd.positionalArgs[i].name = name
       THEN Rejected(cmd)
  ELSE Accepted([cmd EXCEPT !.positionalArgs =
                   Append(@, ArgumentDef(name, <<>>, <<>>, type, required,
                                         defaultValue, FALSE))])

addSubcommand(cmd, sub0) ==
  LET sub == ensureHelpArgument(sub0)
      subName == sub.name
      subs == cmd.subcommands
  IN IF subName \in DOMAIN subs THEN Rejected(cmd)
     ELSE IF \E n \in DOMAIN subs :
                \/ hasAlias(subs[n], subName)
                \/ \E i \in DOMAIN sub.aliases :
                      n = sub.aliases[i] \/ hasAlias(subs[n], sub.aliases[i])
          THEN Rejected(cmd)
     ELSE IF \E i \in DOMAIN sub.aliases : sub.aliases[i] = subName THEN Rejected(cmd)
     ELSE Accepted([cmd EXCEPT !.subcommands = (subName :> sub) @@ @])

addAlias(cmd, alias) ==
  IF alias = cmd.name THEN Rejected(cmd)
  ELSE Accepted([cmd EXCEPT !.aliases = Append(@, alias)])

\* the handler is kept as the exit code it returns: <<>> is nullptr
setHandler(cmd, exitCode) == Accepted([cmd EXCEPT !.handler = <<exitCode>>])

\* the command reached from cmd by following the subcommand names of path
RECURSIVE CmdAt(_, _)
CmdAt(cmd, names) ==
  IF names = <<>> THEN cmd ELSE CmdAt(cmd.subcommands[Head(names)], Tail(names))

\* cmd with the command at path replaced by sub (the subcommands are shared pointers)
RECURSIVE ReplaceAt(_, _, _)
ReplaceAt(cmd, names, sub) ==
  IF names = <<>> THEN sub
  ELSE [cmd EXCEPT !.subcommands[Head(names)] = ReplaceAt(@, Tail(names), sub)]


-----------------------------------------------------------------------------
(* Token accessors used by the matcher *)

\* Token::getStrLitValue of a TOK_STR_LIT token: the raw slice with escapes decoded
RECURSIVE getStrLitValue(_)
getStrLitValue(raw) ==
  IF raw = <<>> THEN <<>>
  ELSE IF Head(raw) = "\\"
       THEN IF Len(raw) = 1 THEN <<"\\">>
            ELSE LET e == raw[2]
                     c == CASE e = "n" -> "\n"
                            [] e = "r" -> "\r"
                            [] e = "t" -> "\t"
                            [] e = "0" -> NUL
                            [] OTHER -> e
                 IN <<c>> \o getStrLitValue(SubSeq(raw, 3, Len(raw)))
       ELSE <<Head(raw)>> \o getStrLitValue(Tail(raw))

\* text of the tokens without payload (the simpleTokens table of Token::print)
simpleTokens ==
  [k \in {"TOK_EOF"} |-> <<"<", "E", "O", "F", ">">>] @@
  [k \in {Keywords[i][2] : i \in DOMAIN Keywords} |->
      Keywords[CHOOSE i \in DOMAIN Keywords : Keywords[i][2] = k][1]] @@
  [k \in {SingleCharTokens[c] : c \in DOMAIN SingleCharTokens} |->
      <<CHOOSE c \in DOMAIN SingleCharTokens : SingleCharTokens[c] = k>>] @@
  ("TOK_ASSIGN" :> <<"=">>) @@ ("TOK_MINUS" :> <<"-">>) @@
  ("TOK_DOUBLE_MINUS" :> <<"-", "-">>) @@ ("TOK_DIVIDE" :> <<"/">>) @@
  ("TOK_SHL" :> <<"<", "<">>) @@ ("TOK_SHR" :> <<">", ">">>) @@
  ("TOK_LESS" :> <<"<">>) @@ ("TOK_GREATER" :> <<">">>) @@
  ("TOK_LESS_EQ" :> <<"<", "=">>) @@ ("TOK_GREATER_EQ" :> <<">", "=">>) @@
  ("TOK_EQ" :> <<"=", "=">>) @@ ("TOK_NOT_EQ" :> <<"!", "=">>) @@
  ("TOK_DOT" :> <<".">>)

HexDigitChars == <<"0", "1", "2", "3", "4", "5", "6", "7", "8", "9",
                   "a", "b", "c", "d", "e", "f">>

\* operator<< of a non-negative integer in the given radix
RECURSIVE printInt(_, _)
printInt(n, radix) ==
  IF n < radix THEN <<HexDigitChars[n + 1]>>
  ELSE printInt(n \div radix, radix) \o <<HexDigitChars[(n % radix) + 1]>>

\* the escapes of a raw string slice as Token::print shows them
RECURSIVE printRaw(_)
printRaw(raw) ==
  IF raw = <<>> THEN <<>>
  ELSE IF Head(raw) = "\\"
       THEN IF Len(raw) = 1 THEN <<"\\">>
            ELSE <<"\\", raw[2]>> \o printRaw(SubSeq(raw, 3, Len(raw)))
       ELSE IF Head(raw) = "\"" THEN <<"\\", "\"">> \o printRaw(Tail(raw))
       ELSE IF Head(raw) = "\n" THEN <<"\\", "n">> \o printRaw(Tail(raw))
       ELSE IF Head(raw) = "\r" THEN <<"\\", "r">> \o printRaw(Tail(raw))
       ELSE IF Head(raw) = "\t" THEN <<"\\", "t">> \o printRaw(Tail(raw))
       ELSE <<Head(raw)>> \o printRaw(Tail(raw))

RECURSIVE Pow10(_)
Pow10(n) == IF n = 0 THEN 1 ELSE 10 * Pow10(n - 1)

\* a double as the decimal m * 10^e it stands for, m without trailing zeros; the
\* literals of the model have fewer significant digits than a double holds
RECURSIVE Normal(_, _)
Normal(m, e) ==
  IF m = 0 THEN [m |-> 0, e |-> 0]
  ELSE IF m % 10 = 0 THEN Normal(m \div 10, e + 1)
  ELSE [m |-> m, e |-> e]

\* strtod(num_buffer, &endptr) of digits [. digits] [e [sign] digits]
StrToD(buf) ==
  LET epos == {i \in DOMAIN buf : buf[i] \in {"e", "E"}}
      ie == IF epos = {} THEN Len(buf) + 1 ELSE CHOOSE i \in epos : TRUE
      mant == SubSeq(buf, 1, ie - 1)
      dpos == {i \in DOMAIN mant : mant[i] = "."}
      id == IF dpos = {} THEN Len(mant) + 1 ELSE CHOOSE i \in dpos : TRUE
      frac == SubSeq(mant, id + 1, Len(mant))
      rest == SubSeq(buf, ie + 1, Len(buf))
      digs == IF rest # <<>> /\ Head(rest) \in {"+", "-"} THEN Tail(rest) ELSE rest
      ev == StrToLL(digs, 10, 0)
  IN Normal(StrToLL(SubSeq(mant, 1, id - 1) \o frac, 10, 0),
            (IF rest # <<>> /\ Head(rest) = "-" THEN 0 - ev ELSE ev) - Len(frac))

Zeros(n) == [i \in 1..n |-> "0"]

\* v rounded to n significant digits, the precision of the stream
Rounded(v, n) ==
  LET d == Len(printInt(v.m, 10))
  IN IF d <= n THEN v
     ELSE Normal((v.m + Pow10(d - n) \div 2) \div Pow10(d - n), v.e + d - n)

\* the exponent part of a printed double: sign and at least two digits
printExponent(x) ==
  LET a == IF x < 0 THEN 0 - x ELSE x
  IN <<"e", IF x < 0 THEN "-" ELSE "+">>
       \o (IF a < 10 THEN <<"0">> ELSE <<>>) \o printInt(a, 10)

\* os << double at precision 6: std::scientific when the literal had an exponent,
\* the default float format otherwise
printFloat(v0, hasExponent) ==
  LET v == Rounded(v0, IF hasExponent THEN 7 ELSE 6)
      ds == printInt(v.m, 10)
      D == Len(ds)
      X == IF v.m = 0 THEN 0 ELSE D - 1 + v.e
  IN IF hasExponent
     THEN <<ds[1], ".">> \o Tail(ds) \o Zeros(7 - D) \o printExponent(X)
     ELSE IF v.m = 0 THEN <<"0">>
     ELSE IF X < 0 - 4 \/ X >= 6
     THEN <<ds[1]>> \o (IF D > 1 THEN <<".">> \o Tail(ds) ELSE <<>>) \o printExponent(X)
     ELSE IF v.e >= 0 THEN ds \o Zeros(v.e)
     ELSE IF X >= 0 THEN SubSeq(ds, 1, X + 1) \o <<".">> \o SubSeq(ds, X + 2, D)
     ELSE <<"0", ".">> \o Zeros(0 - X - 1) \o ds

\* Token::print
print(tok) ==
  CASE tok.kind = "TOK_FLAG_SHORT" -> <<"-">> \o tok.str
    [] tok.kind = "TOK_FLAG_LONG" -> <<"-", "-">> \o tok.str
    [] tok.kind \in DOMAIN simpleTokens -> simpleTokens[tok.kind]
    [] tok.kind = "TOK_ID" -> tok.str
    [] tok.kind = "TOK_STR_LIT" -> <<"\"">> \o printRaw(tok.str) \o <<"\"">>
    [] tok.kind = "TOK_INT_LIT" ->
         IF tok.base = HEX THEN <<"0", "x">> \o printInt(tok.value, 16)
         ELSE IF tok.base = BIN THEN <<"0", "b">> \o printInt(tok.value, 2)
         ELSE printInt(tok.value, 10)
    [] tok.kind = "TOK_FLOAT_LIT" -> printFloat(StrToD(tok.str), tok.hasExp)
    [] OTHER -> <<"<", "U", "n", "k", "n", "o", "w", "n", ">">>

isFlagKind(kind) == kind = "TOK_FLAG_SHORT" \/ kind = "TOK_FLAG_LONG"

isFlagToken(toks, index) == index < Len(toks) /\ isFlagKind(toks[index + 1].kind)

\* index in keywordArgs_ of the first definition the flag name resolves to, 0 for nullptr
findKeywordArg(cmd, flag_name_value, is_short_flag_kind) ==
  LET kw == cmd.keywordArgs
      hit(i) == IF is_short_flag_kind
                THEN Len(kw[i].shortName) > 1 /\ Substr(kw[i].shortName, 1) = flag_name_value
                ELSE Len(kw[i].longName) > 2 /\ Substr(kw[i].longName, 2) = flag_name_value
      hits == {i \in DOMAIN kw : hit(i)}
  IN IF hits = {} THEN 0 ELSE CHOOSE i \in hits : \A j \in hits : i <= j

\* the outcome of parseTokenValue: a value, or the std::runtime_error of getStrLitValue
Value(v) == [threw |-> FALSE, v |-> v]

RuntimeError == [threw |-> TRUE, v |-> AVNone]

parseTokenValue(token, expectedType) ==
  LET kind == token.kind
      native == expectedType = "ARGTYPE_SINGLE" \/ expectedType = "ARGTYPE_POSITIONAL"
      expectString == native \/ expectedType = "ARGTYPE_MULTIPLE"
  IN CASE kind = "TOK_INT_LIT" ->
            IF native THEN Value(AVInt(token.value))
            ELSE IF expectString THEN RuntimeError ELSE Value(AVNone)
       [] kind = "TOK_FLOAT_LIT" ->
            IF native THEN Value(AVDouble(token.str))
            ELSE IF expectString THEN RuntimeError ELSE Value(AVNone)
       [] kind = "TOK_TRUE" ->
            IF native THEN Value(AVBool(TRUE))
            ELSE IF expectString THEN Value(AVFromCharPtr) ELSE Value(AVNone)
       [] kind = "TOK_FALSE" ->
            IF native THEN Value(AVBool(FALSE))
            ELSE IF expectString THEN Value(AVFromCharPtr) ELSE Value(AVNone)
       [] kind = "TOK_STR_LIT" ->
            IF expectString THEN Value(AVString(getStrLitValue(token.str)))
            ELSE Value(AVNone)
       [] kind = "TOK_ID" ->
            IF expectString THEN Value(AVString(token.str)) ELSE Value(AVNone)
       [] OTHER -> Value(AVNone)


-----------------------------------------------------------------------------
(* Command::parse *)

\* errorMessage: the fixed text of the message and the argument or token it names
Message(text, arg) == [text |-> text, arg |-> arg]

\* ParseResult::ParseResult()
ParseResult ==
  [status |-> "SUCCESS", exitCode |-> 0, errorMessage |-> Message("", <<>>),
   commandPath |-> <<>>, keywordValues |-> [n \in {} |-> AVNone],
   positionalValues |-> <<>>]

\* Enter in which a subcommand starts from a token index of its own
Enter_OwnIndex(cmd, cur, commandPathPrefix) ==
  LET kw == cmd.keywordArgs
      named == {i \in DOMAIN kw : ~kw[i].isHelpFlag}
      lastOf(n) == CHOOSE i \in named :
                      kw[i].name = n /\ \A j \in named : kw[j].name = n => j <= i
  IN [cursor |-> IF commandPathPrefix = <<>> THEN cur ELSE 0,
      result |-> [ParseResult EXCEPT
                    !.commandPath = commandPathPrefix \o cmd.name,
                    !.keywordValues = [n \in {kw[i].name : i \in named} |->
                                          kw[lastOf(n)].defaultValue]],
      seen |-> {}, posIdx |-> 0, ctl |-> "loop", sub |-> <<>>, ran |-> <<>>]

\* Enter that seeds every keyword entry with an empty ArgValue instead of the default
Enter_SeedsNone(cmd, cur, commandPathPrefix) ==
  [cursor |-> cur,
   result |-> [ParseResult EXCEPT
                 !.commandPath = commandPathPrefix \o cmd.name,
                 !.keywordValues =
                    [n \in {cmd.keywordArgs[i].name :
                              i \in {j \in DOMAIN cmd.keywordArgs :
                                       ~cmd.keywordArgs[j].isHelpFlag}} |-> AVNone]],
   seen |-> {}, posIdx |-> 0, ctl |-> "loop", sub |-> <<>>, ran |-> <<>>]

\* the locals of one Command::parse activation; ctl is what the activation does next:
\* "loop" (next main-loop iteration), "return", "descend" (into subcommand sub),
\* "throw" (an exception leaves parse) and "hang" (the iteration changed nothing)
Enter(cmd, cur, commandPathPrefix) ==
  LET kw == cmd.keywordArgs
      named == {i \in DOMAIN kw : ~kw[i].isHelpFlag}
      lastOf(n) == CHOOSE i \in named :
                      kw[i].name = n /\ \A j \in named : kw[j].name = n => j <= i
  IN [cursor |-> cur,
      result |-> [ParseResult EXCEPT
                    !.commandPath = commandPathPrefix \o cmd.name,
                    !.keywordValues = [n \in {kw[i].name : i \in named} |->
                                          kw[lastOf(n)].defaultValue]],
      seen |-> {}, posIdx |-> 0, ctl |-> "loop", sub |-> <<>>, ran |-> <<>>]

Fail(st, text, arg) ==
  [st EXCEPT !.result.status = "PARSE_ERROR", !.result.errorMessage = Message(text, arg),
             !.result.exitCode = 1, !.ctl = "return"]

\* a help flag that is skipped like a flag without effect
HelpRequested_Ignored(st) == st

HelpRequested(st) ==
  [st EXCEPT !.result.status = "HELP_REQUESTED", !.result.exitCode = 0, !.ctl = "return"]

Thrown(st) == [st EXCEPT !.ctl = "throw"]

\* parseCluster that stops after the first character of the cluster
parseCluster_FirstOnly(cmd, st, flagNameStr, i) ==
  LET singleFlagChar == <<flagNameStr[i]>>
      m == findKeywordArg(cmd, singleFlagChar, TRUE)
      matchedArg == cmd.keywordArgs[m]
  IN IF m = 0
     THEN Fail(st, "Unknown option in combined flags: -", singleFlagChar)
     ELSE IF matchedArg.isHelpFlag THEN HelpRequested(st)
     ELSE IF matchedArg.type # "ARGTYPE_FLAG"
     THEN Fail(st, "Option - requires a value and cannot be combined.", singleFlagChar)
     ELSE [st EXCEPT !.seen = @ \cup {matchedArg.name},
                     !.result.keywordValues = (matchedArg.name :> AVBool(TRUE)) @@ @]

\* parseCluster that sets an option of any type to true instead of refusing it
RECURSIVE parseCluster_AnyType(_, _, _, _)
parseCluster_AnyType(cmd, st, flagNameStr, i) ==
  IF i > Len(flagNameStr) THEN st
  ELSE LET singleFlagChar == <<flagNameStr[i]>>
           m == findKeywordArg(cmd, singleFlagChar, TRUE)
           matchedArg == cmd.keywordArgs[m]
       IN IF m = 0
          THEN Fail(st, "Unknown option in combined flags: -", singleFlagChar)
          ELSE IF matchedArg.isHelpFlag THEN HelpRequested(st)
          ELSE parseCluster_AnyType(cmd,
                 [st EXCEPT !.seen = @ \cup {matchedArg.name},
                            !.result.keywordValues =
                               (matchedArg.name :> AVBool(TRUE)) @@ @],
                 flagNameStr, i + 1)

\* lines 619-655: the characters of a combined short flag from index i on
RECURSIVE parseCluster(_, _, _, _)
parseCluster(cmd, st, flagNameStr, i) ==
  IF i > Len(flagNameStr) THEN st
  ELSE LET singleFlagChar == <<flagNameStr[i]>>
           m == findKeywordArg(cmd, singleFlagChar, TRUE)
           matchedArg == cmd.keywordArgs[m]
       IN IF m = 0
          THEN Fail(st, "Unknown option in combined flags: -", singleFlagChar)
          ELSE IF matchedArg.isHelpFlag THEN HelpRequested(st)
          ELSE IF matchedArg.type # "ARGTYPE_FLAG"
          THEN Fail(st, "Option - requires a value and cannot be combined.",
                    singleFlagChar)
          ELSE parseCluster(cmd,
                 [st EXCEPT !.seen = @ \cup {matchedArg.name},
                            !.result.keywordValues =
                               (matchedArg.name :> AVBool(TRUE)) @@ @],
                 flagNameStr, i + 1)

\* lines 749-764 and 862-878: the following non-flag tokens that parse as strings
RECURSIVE takeStrings(_, _, _)
takeStrings(toks, cur, vec) ==
  IF cur < Len(toks) /\ ~isFlagToken(toks, cur)
  THEN LET nextParsedValue == parseTokenValue(toks[cur + 1], "ARGTYPE_SINGLE").v
       IN IF isString(nextParsedValue)
          THEN takeStrings(toks, cur + 1, Append(vec, nextParsedValue.s))
          ELSE [cursor |-> cur, vec |-> vec]
  ELSE [cursor |-> cur, vec |-> vec]

\* parseOption that leaves the value token of a SINGLE option to the next iteration
parseOption_ValueNotConsumed(toks, st0, matchedArg) ==
  LET st == [st0 EXCEPT !.cursor = @ + 1, !.seen = @ \cup {matchedArg.name}]
      cur == st.cursor
      parsedValue == parseTokenValue(toks[cur + 1], "ARGTYPE_SINGLE").v
  IN IF matchedArg.type = "ARGTYPE_FLAG"
     THEN [st EXCEPT !.result.keywordValues = (matchedArg.name :> AVBool(TRUE)) @@ @]
     ELSE IF cur >= Len(toks) \/ isFlagKind(toks[cur + 1].kind)
     THEN Fail(st, "Option requires a value.", getDisplayName(matchedArg))
     ELSE IF isNone(parsedValue)
     THEN Fail(st, "Invalid value for option ", getDisplayName(matchedArg))
     ELSE [st EXCEPT !.result.keywordValues = (matchedArg.name :> parsedValue) @@ @]

\* lines 681-777: a flag token that resolved to the non-help definition matchedArg
parseOption(toks, st0, matchedArg) ==
  LET st == [st0 EXCEPT !.cursor = @ + 1, !.seen = @ \cup {matchedArg.name}]
      cur == st.cursor
      parsed == parseTokenValue(toks[cur + 1], matchedArg.type)
      parsedValue == parsed.v
      old == st.result.keywordValues[matchedArg.name]
      vec0 == IF matchedArg.name \in DOMAIN st.result.keywordValues /\ isStringVector(old)
              THEN old.sv ELSE <<>>
      taken == takeStrings(toks, cur + 1, Append(vec0, parsedValue.s))
  IN IF matchedArg.type = "ARGTYPE_FLAG"
     THEN [st EXCEPT !.result.keywordValues = (matchedArg.name :> AVBool(TRUE)) @@ @]
     ELSE IF cur >= Len(toks) \/ isFlagKind(toks[cur + 1].kind)
     THEN Fail(st, "Option requires a value.", getDisplayName(matchedArg))
     ELSE IF parsed.threw THEN Thrown(st)
     ELSE IF isNone(parsedValue)
     THEN Fail(st, "Invalid value for option ", getDisplayName(matchedArg))
     ELSE IF matchedArg.type = "ARGTYPE_SINGLE"
     THEN [st EXCEPT !.result.keywordValues = (matchedArg.name :> parsedValue) @@ @,
                     !.cursor = @ + 1]
     ELSE IF matchedArg.type = "ARGTYPE_MULTIPLE"
     THEN IF ~isString(parsedValue)
          THEN Fail(st, "Internal error: Expected string value for multiple option ",
                    matchedArg.name)
          ELSE [st EXCEPT !.result.keywordValues =
                             (matchedArg.name :> AVStringVector(taken.vec)) @@ @,
                          !.cursor = taken.cursor]
     ELSE st

\* lines 612-778: the token at the cursor is a short or long flag
parseFlag(cmd, toks, st) ==
  LET token == toks[st.cursor + 1]
      flagNameStr == token.str
      is_short_flag_kind == token.kind = "TOK_FLAG_SHORT"
      m == findKeywordArg(cmd, flagNameStr, is_short_flag_kind)
      matchedArg == cmd.keywordArgs[m]
  IN IF is_short_flag_kind /\ Len(flagNameStr) > 1
     THEN parseCluster(cmd, [st EXCEPT !.cursor = @ + 1], flagNameStr, 1)
     ELSE IF m = 0
     THEN Fail(st, "Unknown option: ",
               (IF is_short_flag_kind THEN <<"-">> ELSE <<"-", "-">>) \o flagNameStr)
     ELSE IF matchedArg.isHelpFlag THEN HelpRequested(st)
     ELSE parseOption(toks, st, matchedArg)


\* matchSubcommand that looks at the names of the subcommands only
matchSubcommand_NamesOnly(cmd, potentialSubcommandOrAlias) ==
  IF potentialSubcommandOrAlias \in DOMAIN cmd.subcommands
  THEN [found |-> TRUE, ambiguous |-> FALSE, name |-> potentialSubcommandOrAlias]
  ELSE [found |-> FALSE, ambiguous |-> FALSE, name |-> <<>>]

\* matchSubcommand that dispatches to one of the subcommands sharing an alias
matchSubcommand_AnyAlias(cmd, potentialSubcommandOrAlias) ==
  LET subs == cmd.subcommands
      aliased == {n \in DOMAIN subs : hasAlias(subs[n], potentialSubcommandOrAlias)}
  IN IF potentialSubcommandOrAlias \in DOMAIN subs
     THEN [found |-> TRUE, ambiguous |-> FALSE, name |-> potentialSubcommandOrAlias]
     ELSE IF aliased = {} THEN [found |-> FALSE, ambiguous |-> FALSE, name |-> <<>>]
     ELSE [found |-> TRUE, ambiguous |-> FALSE, name |-> CHOOSE n \in aliased : TRUE]

\* lines 782-807: the subcommand an identifier names, directly or through an alias
matchSubcommand(cmd, potentialSubcommandOrAlias) ==
  LET subs == cmd.subcommands
      aliased == {n \in DOMAIN subs : hasAlias(subs[n], potentialSubcommandOrAlias)}
  IN IF potentialSubcommandOrAlias \in DOMAIN subs
     THEN [found |-> TRUE, ambiguous |-> FALSE, name |-> potentialSubcommandOrAlias]
     ELSE IF aliased = {} THEN [found |-> FALSE, ambiguous |-> FALSE, name |-> <<>>]
     ELSE IF Cardinality(aliased) > 1
     THEN [found |-> FALSE, ambiguous |-> TRUE, name |-> <<>>]
     ELSE [found |-> TRUE, ambiguous |-> FALSE, name |-> CHOOSE n \in aliased : TRUE]

\* parsePositional that returns at a token without a positional slot and leaves it
\* to the caller
parsePositional_LeavesExtra(cmd, toks, st) ==
  LET token == toks[st.cursor + 1]
      posArgDef == cmd.positionalArgs[st.posIdx + 1]
      parsed == parseTokenValue(token, posArgDef.type)
      parsedValue == parsed.v
      taken == takeStrings(toks, st.cursor + 1, <<parsedValue.s>>)
  IN IF st.posIdx < Len(cmd.positionalArgs)
     THEN IF parsed.threw THEN Thrown(st)
          ELSE IF isNone(parsedValue)
          THEN Fail(st, "Invalid value for positional argument ", posArgDef.name)
          ELSE IF posArgDef.type = "ARGTYPE_SINGLE"
          THEN [st EXCEPT !.result.positionalValues = Append(@, parsedValue),
                          !.cursor = @ + 1, !.posIdx = @ + 1]
          ELSE IF posArgDef.type = "ARGTYPE_MULTIPLE"
          THEN IF ~isString(parsedValue)
               THEN Fail(st, "Internal error: Expected string value for multiple positional argument ",
                         posArgDef.name)
               ELSE [st EXCEPT !.result.positionalValues =
                                  Append(@, AVStringVector(taken.vec)),
                               !.cursor = taken.cursor, !.posIdx = @ + 1]
          ELSE st
     ELSE [st EXCEPT !.ctl = "return"]

\* lines 822-896: the token is neither a flag nor a subcommand
parsePositional(cmd, toks, st) ==
  LET token == toks[st.cursor + 1]
      posArgDef == cmd.positionalArgs[st.posIdx + 1]
      parsed == parseTokenValue(token, posArgDef.type)
      parsedValue == parsed.v
      taken == takeStrings(toks, st.cursor + 1, <<parsedValue.s>>)
  IN IF st.posIdx < Len(cmd.positionalArgs)
     THEN IF parsed.threw THEN Thrown(st)
          ELSE IF isNone(parsedValue)
          THEN Fail(st, "Invalid value for positional argument ", posArgDef.name)
          ELSE IF posArgDef.type = "ARGTYPE_SINGLE"
          THEN [st EXCEPT !.result.positionalValues = Append(@, parsedValue),
                          !.cursor = @ + 1, !.posIdx = @ + 1]
          ELSE IF posArgDef.type = "ARGTYPE_MULTIPLE"
          THEN IF ~isString(parsedValue)
               THEN Fail(st, "Internal error: Expected string value for multiple positional argument ",
                         posArgDef.name)
               ELSE [st EXCEPT !.result.positionalValues =
                                  Append(@, AVStringVector(taken.vec)),
                               !.cursor = taken.cursor, !.posIdx = @ + 1]
          ELSE st
     ELSE Fail(st, "Unexpected argument: ", print(token))

\* a variant that gives the identifier to a positional slot while one is unfilled
parseSubcommandOrPositional_SlotsFirst(cmd, toks, st) ==
  LET token == toks[st.cursor + 1]
      m == matchSubcommand(cmd, token.str)
  IN IF st.posIdx < Len(cmd.positionalArgs)
     THEN parsePositional(cmd, toks, st)
     ELSE IF token.kind = "TOK_ID" /\ m.ambiguous
     THEN Fail(st, "Ambiguous alias matches multiple subcommands.", token.str)
     ELSE IF token.kind = "TOK_ID" /\ m.found
     THEN [st EXCEPT !.cursor = @ + 1, !.ctl = "descend", !.sub = m.name]
     ELSE parsePositional(cmd, toks, st)

\* lines 781-819: the token is not a flag
parseSubcommandOrPositional(cmd, toks, st) ==
  LET token == toks[st.cursor + 1]
      m == matchSubcommand(cmd, token.str)
  IN IF token.kind = "TOK_ID" /\ m.ambiguous
     THEN Fail(st, "Ambiguous alias matches multiple subcommands.", token.str)
     ELSE IF token.kind = "TOK_ID" /\ m.found
     THEN [st EXCEPT !.cursor = @ + 1, !.ctl = "descend", !.sub = m.name]
     ELSE parsePositional(cmd, toks, st)

\* lines 607-897: one iteration of the main loop (the cursor is inside the tokens)
LoopBody(cmd, toks, st) ==
  IF isFlagKind(toks[st.cursor + 1].kind) THEN parseFlag(cmd, toks, st)
  ELSE parseSubcommandOrPositional(cmd, toks, st)

\* fillPositionals without the defaults of the positionals that were not supplied
fillPositionals_NoDefaults(cmd, st, i) ==
  LET req == {j \in i..Len(cmd.positionalArgs) : cmd.positionalArgs[j].required}
  IN IF req = {} THEN st
     ELSE Fail(st, "Missing required positional argument: ",
               cmd.positionalArgs[CHOOSE j \in req : \A k \in req : j <= k].name)

\* lines 919-936: required check and defaults of the positionals from index i on
RECURSIVE fillPositionals(_, _, _)
fillPositionals(cmd, st, i) ==
  IF i > Len(cmd.positionalArgs) THEN st
  ELSE IF cmd.positionalArgs[i].required
  THEN Fail(st, "Missing required positional argument: ", cmd.positionalArgs[i].name)
  ELSE fillPositionals(cmd,
         [st EXCEPT !.result.positionalValues = Append(@, cmd.positionalArgs[i].defaultValue)],
         i + 1)

\* Validate in which the handler runs whatever the status of the result is
Validate_HandlerAlways(cmd, st) ==
  LET kw == cmd.keywordArgs
      missing == {i \in DOMAIN kw :
                    ~kw[i].isHelpFlag /\ kw[i].required /\ kw[i].name \notin st.seen}
      first == CHOOSE i \in missing : \A j \in missing : i <= j
      filled == IF missing # {}
                THEN Fail(st, "Missing required option: ", getDisplayName(kw[first]))
                ELSE fillPositionals(cmd, st, st.posIdx + 1)
  IN IF cmd.handler # <<>>
     THEN [filled EXCEPT !.result.exitCode = cmd.handler[1],
                         !.ran = Append(@, filled.result.commandPath), !.ctl = "return"]
     ELSE [filled EXCEPT !.ctl = "return"]

\* Validate without the check of the required keyword arguments
Validate_NoKeywordCheck(cmd, st) ==
  LET filled == fillPositionals(cmd, st, st.posIdx + 1)
  IN IF cmd.handler # <<>> /\ filled.result.status = "SUCCESS"
     THEN [filled EXCEPT !.result.exitCode = cmd.handler[1],
                         !.ran = Append(@, filled.result.commandPath), !.ctl = "return"]
     ELSE [filled EXCEPT !.ctl = "return"]

\* lines 899-944: what parse does once the main loop has run out of tokens
Validate(cmd, st) ==
  LET kw == cmd.keywordArgs
      missing == {i \in DOMAIN kw :
                    ~kw[i].isHelpFlag /\ kw[i].required /\ kw[i].name \notin st.seen}
      first == CHOOSE i \in missing : \A j \in missing : i <= j
      filled == fillPositionals(cmd, st, st.posIdx + 1)
  IN IF missing # {}
     THEN Fail(st, "Missing required option: ", getDisplayName(kw[first]))
     ELSE IF cmd.handler # <<>> /\ filled.result.status = "SUCCESS"
     THEN [filled EXCEPT !.result.exitCode = cmd.handler[1],
                         !.ran = Append(@, filled.result.commandPath), !.ctl = "return"]
     ELSE [filled EXCEPT !.ctl = "return"]

\* Command::parse from the locals st on, subcommand activations included; an
\* iteration that leaves cursor and locals as they were repeats forever
RECURSIVE RunCommand(_, _, _)
RunCommand(cmd, toks, st) ==
  IF st.cursor >= Len(toks) THEN Validate(cmd, st)
  ELSE LET s2 == LoopBody(cmd, toks, st)
       IN IF s2.ctl = "descend"
          THEN RunCommand(cmd.subcommands[s2.sub], toks,
                          Enter(cmd.subcommands[s2.sub], s2.cursor,
                                s2.result.commandPath \o <<" ">>))
          ELSE IF s2.ctl # "loop" THEN s2
          ELSE IF s2 = st THEN [st EXCEPT !.ctl = "hang"]
          ELSE RunCommand(cmd, toks, s2)

-----------------------------------------------------------------------------
(* ArgumentParser::parse *)

\* the catch blocks: a fresh ParseResult that carries e.what()
errorResult(what) ==
  [ParseResult EXCEPT !.status = "PARSE_ERROR", !.errorMessage = Message(what, <<>>),
                      !.exitCode = 1]

\* lines 1230-1276: what ArgumentParser::parse returns for the outcome st of the
\* root Command::parse
Returned(toks, st) ==
  IF st.ctl = "throw" THEN errorResult("Token is not a string literal")
  ELSE IF st.result.status # "SUCCESS" THEN st.result
  ELSE IF st.cursor < Len(toks)
  THEN [st.result EXCEPT !.status = "PARSE_ERROR",
                         !.errorMessage = Message("Unexpected arguments starting from: ",
                                                  print(toks[st.cursor + 1])),
                         !.exitCode = 1]
  ELSE st.result

\* parse(argc, argv), lines 1201-1205: every word is followed by one space
RECURSIVE JoinArgs(_)
JoinArgs(words) ==
  IF words = <<>> THEN <<>> ELSE Head(words) \o <<" ">> \o JoinArgs(Tail(words))

\* lines 1219-1225: the tokens of the command line without the trailing TOK_EOF
TokensOf(lexed) ==
  IF lexed.tokens # <<>> /\ lexed.tokens[Len(lexed.tokens)].kind = "TOK_EOF"
  THEN SubSeq(lexed.tokens, 1, Len(lexed.tokens) - 1) ELSE lexed.tokens

\* lines 1227-1254: ArgumentParser::parse from the token vector on: the returned
\* result, the handlers that ran, and whether the matcher hung or threw
MatchTokens(rootCommand, toks) ==
  LET st == RunCommand(rootCommand, toks, Enter(rootCommand, 0, <<>>))
  IN [result |-> Returned(toks, st), ran |-> st.ran, ctl |-> st.ctl]

\* ArgumentParser::parse(commandLine) as one function of the tree and the text
ParseLine(rootCommand, commandLine) ==
  LET lexed == tokenize(commandLine)
  IN IF lexed.err # "NONE"
     THEN [result |-> errorResult(lexed.err), ran |-> <<>>, ctl |-> "return"]
     ELSE MatchTokens(rootCommand, TokensOf(lexed))

-----------------------------------------------------------------------------
(* The registration calls and the command lines of the model *)

s_app == <<"a", "p", "p">>

\* addKeywordArg calls: name, shortName, longName, type, required, defaultValue
KeywordMenu ==
  { <<<<"a">>, <<"-", "a">>, <<>>, "ARGTYPE_FLAG", FALSE, AVNone>>,
    <<<<"b">>, <<"-", "b">>, <<"-", "-", "b", "e", "e">>, "ARGTYPE_FLAG", FALSE, AVBool(TRUE)>>,
    <<<<"o">>, <<"-", "o">>, <<"-", "-", "o", "u", "t">>, "ARGTYPE_SINGLE", TRUE, AVNone>>,
    <<<<"m">>, <<"-", "m">>, <<>>, "ARGTYPE_MULTIPLE", FALSE, AVNone>>,
    <<s_help, <<>>, <<>>, "ARGTYPE_FLAG", FALSE, AVNone>> }

\* addPositionalArg calls: name, type, required, defaultValue
PositionalMenu ==
  { <<<<"p">>, "ARGTYPE_SINGLE", TRUE, AVNone>>,
    <<<<"r">>, "ARGTYPE_MULTIPLE", FALSE, AVNone>>,
    <<<<"z">>, "ARGTYPE_POSITIONAL", FALSE, AVString(<<"v">>)>>,
    <<<<"f">>, "ARGTYPE_FLAG", FALSE, AVNone>> }

\* subcommands as the caller builds them before addSubcommand
commitCommand ==
  setHandler(
    addKeywordArg(addAlias(NewCommand(<<"c">>), <<"c", "i">>).cmd,
                  <<"o">>, <<"-", "o">>, <<"-", "-", "o", "u", "t">>,
                  "ARGTYPE_SINGLE", TRUE, AVNone).cmd,
    3).cmd

diffCommand ==
  addPositionalArg(NewCommand(<<"d">>), <<"q">>, "ARGTYPE_SINGLE", FALSE,
                   AVString(<<"v">>)).cmd

SubcommandMenu == {commitCommand, diffCommand}

AliasMenu == {<<"c", "i">>, <<"d">>}

\* the argv words a command line is made of
WordMenu ==
  { <<"-", "a">>,
    <<"-", "b", "a">>,
    <<"-", "a", "h">>,
    <<"-", "-", "n", "o", "-", "b", "e", "e">>,
    <<"-", "o">>,
    <<"-", "m">>,
    <<"-", "-", "h", "e", "l", "p">>,
    <<"7">>,
    <<"c">>,
    <<"c", "i">>,
    <<"d">>,
    <<"+">>,
    <<".">> }

WordSeqs == UNION {[1..n -> WordMenu] : n \in 0..MaxWords}


-----------------------------------------------------------------------------
(* The state machine of the matcher *)

LexIdle == code = <<>> /\ lexPos = 0 /\ lexTokens = <<>> /\ lexState = "idle"

NoParse ==
  /\ phase = "ready" /\ steps = 0 /\ argv = <<>> /\ tokens = <<>> /\ cursor = 0
  /\ path = <<>> /\ result = ParseResult /\ seen = {} /\ posIdx = 0
  /\ escaped = FALSE /\ handlerLog = <<>>

Init ==
  /\ root = NewCommand(s_app) /\ regs = 0 /\ lastCall = "none"
  /\ NoParse
  /\ LexIdle

\* a registration call on the root command with outcome r, while fewer than bound
\* calls have changed the tree
RegisterWithin(r, bound) ==
  /\ phase = "ready"
  /\ regs < bound
  /\ root' = r.cmd
  /\ regs' = IF r.cmd = root THEN regs ELSE regs + 1
  /\ lastCall' = IF r.threw THEN "rejected" ELSE "accepted"
  /\ UNCHANGED <<parseVars, lexVars>>

Register(r) == RegisterWithin(r, MaxRegs)

AddKeywordArg ==
  \E k \in KeywordMenu :
    Register(addKeywordArg(root, k[1], k[2], k[3], k[4], k[5], k[6]))

AddPositionalArg ==
  \E k \in PositionalMenu : Register(addPositionalArg(root, k[1], k[2], k[3], k[4]))

AddSubcommand == \E sub \in SubcommandMenu : Register(addSubcommand(root, sub))

\* addAlias on a command that is already registered under the root
AddAlias ==
  \E n \in DOMAIN root.subcommands : \E alias \in AliasMenu :
    LET r == addAlias(root.subcommands[n], alias)
    IN Register([cmd |-> [root EXCEPT !.subcommands[n] = r.cmd], threw |-> r.threw])

SetHandler == Register(setHandler(root, 5))

\* the command whose parse() is the innermost activation, and its locals
Active == CmdAt(root, path)

Locals ==
  [cursor |-> cursor, result |-> result, seen |-> seen, posIdx |-> posIdx,
   ctl |-> "loop", sub |-> <<>>, ran |-> handlerLog]

\* Becomes in which the root command runs its own handler on the successful result
\* that a subcommand returned
Becomes_AncestorHandler(s2) ==
  IF s2.ctl = "loop"
  THEN /\ cursor' = s2.cursor /\ result' = s2.result /\ seen' = s2.seen
       /\ posIdx' = s2.posIdx
       /\ UNCHANGED <<phase, path, escaped, handlerLog>>
  ELSE IF s2.ctl = "descend"
  THEN LET sub == CmdAt(root, path).subcommands[s2.sub]
           e == Enter(sub, s2.cursor, s2.result.commandPath \o <<" ">>)
       IN /\ path' = Append(path, s2.sub)
          /\ cursor' = e.cursor /\ result' = e.result /\ seen' = e.seen
          /\ posIdx' = e.posIdx
          /\ UNCHANGED <<phase, escaped, handlerLog>>
  ELSE LET again == path # <<>> /\ root.handler # <<>> /\ s2.ctl = "return"
                      /\ s2.result.status = "SUCCESS"
       IN /\ phase' = "done"
          /\ result' = IF again
                       THEN [Returned(tokens, s2) EXCEPT !.exitCode = root.handler[1]]
                       ELSE Returned(tokens, s2)
          /\ escaped' = (s2.ctl = "throw")
          /\ handlerLog' = IF again THEN Append(s2.ran, root.name) ELSE s2.ran
          /\ cursor' = s2.cursor /\ seen' = s2.seen /\ posIdx' = s2.posIdx
          /\ UNCHANGED path

\* the machine state after the innermost activation reached outcome s2
Becomes(s2) ==
  IF s2.ctl = "loop"
  THEN /\ cursor' = s2.cursor /\ result' = s2.result /\ seen' = s2.seen
       /\ posIdx' = s2.posIdx
       /\ UNCHANGED <<phase, path, escaped, handlerLog>>
  ELSE IF s2.ctl = "descend"
  THEN LET sub == Active.subcommands[s2.sub]
           e == Enter(sub, s2.cursor, s2.result.commandPath \o <<" ">>)
       IN /\ path' = Append(path, s2.sub)
          /\ cursor' = e.cursor /\ result' = e.result /\ seen' = e.seen
          /\ posIdx' = e.posIdx
          /\ UNCHANGED <<phase, escaped, handlerLog>>
  ELSE /\ phase' = "done"
       /\ result' = Returned(tokens, s2)
       /\ escaped' = (s2.ctl = "throw")
       /\ handlerLog' = s2.ran
       /\ cursor' = s2.cursor /\ seen' = s2.seen /\ posIdx' = s2.posIdx
       /\ UNCHANGED path

InLoop == phase = "matching" /\ cursor < Len(tokens) /\ steps < MaxSteps

\* Iterate in which the matcher also clears the handler of the root command
Iterate_ClearsHandler(s2) ==
  /\ steps' = steps + 1
  /\ Becomes(s2)
  /\ root' = [root EXCEPT !.handler = <<>>]
  /\ UNCHANGED <<regs, lastCall, argv, tokens, lexVars>>

Iterate(s2) ==
  /\ steps' = steps + 1
  /\ Becomes(s2)
  /\ UNCHANGED <<treeVars, argv, tokens, lexVars>>

\* ArgumentParser::parse up to the call of the root Command::parse, on one of the
\* given command lines
StartParseOf(lines) ==
  /\ phase = "ready"
  /\ \E words \in lines :
       LET lexed == tokenize(JoinArgs(words))
           e == Enter(root, 0, <<>>)
       IN /\ argv' = words
          /\ IF lexed.err # "NONE"
             THEN /\ phase' = "done" /\ result' = errorResult(lexed.err)
                  /\ tokens' = <<>> /\ seen' = {}
             ELSE /\ phase' = "matching" /\ result' = e.result
                  /\ tokens' = TokensOf(lexed) /\ seen' = e.seen
  /\ cursor' = 0 /\ posIdx' = 0 /\ path' = <<>> /\ steps' = 0
  /\ escaped' = FALSE /\ handlerLog' = <<>>
  /\ lastCall' = "parse"
  /\ UNCHANGED <<root, regs, lexVars>>

StartParse == StartParseOf(WordSeqs)

ParseFlagToken ==
  /\ InLoop
  /\ isFlagKind(tokens[cursor + 1].kind)
  /\ Iterate(parseFlag(Active, tokens, Locals))

DispatchSubcommand ==
  /\ InLoop
  /\ tokens[cursor + 1].kind = "TOK_ID"
  /\ matchSubcommand(Active, tokens[cursor + 1].str).found
  /\ Iterate(parseSubcommandOrPositional(Active, tokens, Locals))

ParsePositionalToken ==
  /\ InLoop
  /\ ~isFlagKind(tokens[cursor + 1].kind)
  /\ ~(tokens[cursor + 1].kind = "TOK_ID"
       /\ matchSubcommand(Active, tokens[cursor + 1].str).found)
  /\ Iterate(parseSubcommandOrPositional(Active, tokens, Locals))

\* the main loop has run out of tokens: validation, handler, and the return
\* through every caller up to ArgumentParser::parse
FinishParse ==
  /\ phase = "matching" /\ cursor >= Len(tokens)
  /\ Becomes(Validate(Active, Locals))
  /\ UNCHANGED <<treeVars, steps, argv, tokens, lexVars>>

\* the caller has the ParseResult; the parser is ready for the next call
NextCall ==
  /\ phase = "done"
  /\ phase' = "ready" /\ steps' = 0 /\ argv' = <<>> /\ tokens' = <<>> /\ cursor' = 0
  /\ path' = <<>> /\ result' = ParseResult /\ seen' = {} /\ posIdx' = 0
  /\ escaped' = FALSE /\ handlerLog' = <<>>
  /\ UNCHANGED <<treeVars, lexVars>>

Next ==
  \/ AddKeywordArg
  \/ AddPositionalArg
  \/ AddSubcommand
  \/ AddAlias
  \/ SetHandler
  \/ StartParse
  \/ ParseFlagToken
  \/ DispatchSubcommand
  \/ ParsePositionalToken
  \/ FinishParse
  \/ NextCall

Spec == Init /\ [][Next]_vars


-----------------------------------------------------------------------------
(* The state machine of the Lexer: lexAll on one buffer, one nextToken per step *)

LexAlphabet ==
  {"b", "e", "x", "n", "0", "1", "-", "\"", "\\", " ", "/", ".", "+", NUL}

LexInputs == UNION {[1..n -> LexAlphabet] : n \in 0..MaxLexLen}

InitLex ==
  /\ root = NewCommand(s_app) /\ regs = 0 /\ lastCall = "none"
  /\ NoParse
  /\ code \in LexInputs /\ lexPos = 0 /\ lexTokens = <<>> /\ lexState = "lexing"

\* one iteration of the do-while of lexAll
NextToken ==
  /\ lexState = "lexing"
  /\ LET r == LexStep(code, lexPos)
     IN /\ lexPos' = r.pos
        /\ lexTokens' = IF r.err # "NONE" THEN lexTokens ELSE Append(lexTokens, r.tok)
        /\ lexState' = IF r.err # "NONE" THEN r.err
                       ELSE IF r.tok.kind = "TOK_EOF" THEN "done" ELSE "lexing"
  /\ UNCHANGED <<treeVars, parseVars, code>>

NextLex == NextToken

SpecLex == InitLex /\ [][NextLex]_vars

-----------------------------------------------------------------------------
(* Properties of the results *)

Done == phase = "done"

\* the non-help keyword definitions of a command
Declared(cmd) == {i \in DOMAIN cmd.keywordArgs : ~cmd.keywordArgs[i].isHelpFlag}

\* C1: whenever a parse returns SUCCESS, keywordValues has an entry for exactly the
\* non-help keyword definitions of the matched (deepest) command, and positionalValues
\* has one entry per declared positional of that command, in declaration order: a
\* supplied MULTIPLE positional holds a string list, a supplied SINGLE one a single
\* value, and a positional that was not supplied holds its default.
SuccessHasOneEntryPerDef ==
  (Done /\ result.status = "SUCCESS") =>
    LET cmd == Active
        pos == cmd.positionalArgs
    IN /\ DOMAIN result.keywordValues = {cmd.keywordArgs[i].name : i \in Declared(cmd)}
       /\ Len(result.positionalValues) = Len(pos)
       /\ \A i \in DOMAIN pos :
            IF i <= posIdx
            THEN (pos[i].type = "ARGTYPE_MULTIPLE") = isStringVector(result.positionalValues[i])
            ELSE result.positionalValues[i] = pos[i].defaultValue

\* a SUCCESS on a command with two positionals, the first supplied on the command
\* line and the second filled from its default
SuccessWithSuppliedAndDefault ==
  /\ Done /\ result.status = "SUCCESS"
  /\ Len(Active.positionalArgs) = 2 /\ posIdx = 1
  /\ Len(result.positionalValues) = 2

\* the required arguments of cmd that the main loop has not seen
MissingKeywords(cmd, seenNames) ==
  {i \in Declared(cmd) : cmd.keywordArgs[i].required /\ cmd.keywordArgs[i].name \notin seenNames}

MissingPositionals(cmd, idx) ==
  {i \in (idx + 1)..Len(cmd.positionalArgs) : cmd.positionalArgs[i].required}

Least(S) == CHOOSE i \in S : \A j \in S : i <= j

\* C2 as stated: in every returned result, each required argument of the matched
\* command that was not supplied makes the result a PARSE_ERROR naming that argument.
EveryOmissionIsReported ==
  Done =>
    /\ \A i \in MissingKeywords(Active, seen) :
          /\ result.status = "PARSE_ERROR"
          /\ result.errorMessage.arg \in {Active.keywordArgs[i].name,
                                          getDisplayName(Active.keywordArgs[i])}
    /\ \A i \in MissingPositionals(Active, posIdx) :
          /\ result.status = "PARSE_ERROR"
          /\ result.errorMessage.arg = Active.positionalArgs[i].name

\* the step in which the matched command validates: its main loop has consumed
\* every token without an error or a help request
ValidationReportsFirstOmission ==
  (phase = "matching" /\ cursor >= Len(tokens) /\ phase' = "done") =>
    LET cmd == Active
        mk == MissingKeywords(cmd, seen)
        mp == MissingPositionals(cmd, posIdx)
    IN IF mk # {}
       THEN /\ result'.status = "PARSE_ERROR" /\ result'.exitCode = 1
            /\ result'.errorMessage =
                 Message("Missing required option: ", getDisplayName(cmd.keywordArgs[Least(mk)]))
       ELSE IF mp # {}
       THEN /\ result'.status = "PARSE_ERROR" /\ result'.exitCode = 1
            /\ result'.errorMessage =
                 Message("Missing required positional argument: ",
                         cmd.positionalArgs[Least(mp)].name)
       ELSE result'.status = "SUCCESS"

NoSuccessOmitsRequired ==
  (Done /\ result.status = "SUCCESS") =>
    MissingKeywords(Active, seen) = {} /\ MissingPositionals(Active, posIdx) = {}

\* C2 (amended): when the main loop of the matched (deepest) command has consumed
\* every token without an error or a help request, a required keyword or positional
\* argument of that command that was not supplied makes the result a PARSE_ERROR
\* with exit code 1 whose message names the first such argument (keyword arguments
\* before positionals, each in declaration order); and no SUCCESS result omits a
\* required argument of the matched command.
OmissionReportedByValidation ==
  [](NoSuccessOmitsRequired) /\ [][ValidationReportsFirstOmission]_vars

\* validation of a subcommand reported a missing required option
MissingOptionReported ==
  /\ Done /\ path # <<>>
  /\ result.status = "PARSE_ERROR"
  /\ result.errorMessage.text = "Missing required option: "
  /\ MissingKeywords(Active, seen) # {}


\* the token runs consumed by the successive main-loop iterations of cmd from st on:
\* a flag occurrence with its value tokens, or the tokens of one positional
RECURSIVE Occurrences(_, _, _)
Occurrences(cmd, toks, st) ==
  IF st.cursor >= Len(toks) THEN <<>>
  ELSE LET s2 == LoopBody(cmd, toks, st)
       IN IF s2.ctl # "loop" \/ s2.cursor = st.cursor THEN <<>>
          ELSE <<SubSeq(toks, st.cursor + 1, s2.cursor)>> \o Occurrences(cmd, toks, s2)

isFlagOccurrence(u) == isFlagKind(u[1].kind)

\* the occurrences us with the adjacent occurrences i and i + 1 exchanged
Exchanged(us, i) ==
  Concat([j \in DOMAIN us |-> IF j = i THEN us[i + 1] ELSE IF j = i + 1 THEN us[i] ELSE us[j]])

\* exchanging a flag occurrence with its neighbour leaves both maps as they are; the
\* exchanges of neighbours generate every interleaving that keeps the positionals in order
ExchangeKeepsValues(us) ==
  \A i \in 1..(Len(us) - 1) :
    (isFlagOccurrence(us[i]) \/ isFlagOccurrence(us[i + 1])) =>
      LET r == MatchTokens(root, Exchanged(us, i)).result
      IN /\ r.keywordValues = result.keywordValues
         /\ r.positionalValues = result.positionalValues

\* C3 as stated: for a command with required positionals and optional keyword
\* arguments, every input that supplies the positionals in order and the flag
\* occurrences (each with its value tokens) yields the same keywordValues and
\* positionalValues wherever the flag occurrences are placed.
FlagPositionIrrelevant ==
  ( /\ Done /\ path = <<>> /\ result.status = "SUCCESS"
    /\ \A i \in Declared(root) : ~root.keywordArgs[i].required
    /\ \A i \in DOMAIN root.positionalArgs : root.positionalArgs[i].required )
  => ExchangeKeepsValues(Occurrences(root, tokens, Enter(root, 0, <<>>)))

\* every keyword argument of cmd is FLAG or SINGLE and every positional is SINGLE
SingleValued(cmd) ==
  /\ \A i \in Declared(cmd) : cmd.keywordArgs[i].type \in {"ARGTYPE_FLAG", "ARGTYPE_SINGLE"}
  /\ \A i \in DOMAIN cmd.positionalArgs : cmd.positionalArgs[i].type = "ARGTYPE_SINGLE"

\* no two occurrences of us carry a value for the same option
OptionsOnce(cmd, us) ==
  \A i, j \in DOMAIN us :
    ( /\ i # j /\ Len(us[i]) = 2 /\ Len(us[j]) = 2
      /\ isFlagOccurrence(us[i]) /\ isFlagOccurrence(us[j]) )
    => findKeywordArg(cmd, us[i][1].str, us[i][1].kind = "TOK_FLAG_SHORT")
         # findKeywordArg(cmd, us[j][1].str, us[j][1].kind = "TOK_FLAG_SHORT")

\* C3 (amended): for a command whose keyword arguments are FLAG or SINGLE and whose
\* positionals are SINGLE, an input that is parsed with SUCCESS and gives each valued
\* option at most once yields the same keywordValues and positionalValues wherever
\* its flag occurrences (the flag with its value token) are placed among the
\* positionals, the positionals keeping their order.
SingleValuedFlagPositionIrrelevant ==
  ( /\ Done /\ path = <<>> /\ result.status = "SUCCESS"
    /\ SingleValued(root)
    /\ OptionsOnce(root, Occurrences(root, tokens, Enter(root, 0, <<>>))) )
  => ExchangeKeepsValues(Occurrences(root, tokens, Enter(root, 0, <<>>)))

\* a SUCCESS on an option with its value followed by a positional
OptionThenPositionalParsed ==
  /\ Done /\ path = <<>> /\ result.status = "SUCCESS"
  /\ SingleValued(root)
  /\ Len(tokens) = 3 /\ isFlagKind(tokens[1].kind)
  /\ Len(Occurrences(root, tokens, Enter(root, 0, <<>>))) = 2
  /\ Len(result.positionalValues) = 1

\* the short flags named by chars are registered on cmd as boolean FLAG arguments
BooleanFlags(cmd, chars) ==
  \A k \in DOMAIN chars :
    \E i \in Declared(cmd) :
      /\ cmd.keywordArgs[i].shortName = <<"-", chars[k]>>
      /\ cmd.keywordArgs[i].type = "ARGTYPE_FLAG"

\* toks with the cluster at index k replaced by one short-flag token per character,
\* the characters taken in the given order
Separated(toks, k, order) ==
  SubSeq(toks, 1, k - 1)
    \o [j \in DOMAIN order |-> makeShortFlag(<<toks[k].str[order[j]]>>, 0, 0)]
    \o SubSeq(toks, k + 1, Len(toks))

\* C4: a clustered short-flag token whose characters all name registered boolean
\* FLAG arguments gives the same status and the same keywordValues as the same flags
\* given as separate tokens in its place, in any order of the characters.
ClusterEqualsSeparateFlags ==
  Done =>
    \A k \in DOMAIN tokens :
      ( /\ tokens[k].kind = "TOK_FLAG_SHORT" /\ Len(tokens[k].str) > 1
        /\ BooleanFlags(root, tokens[k].str)
        /\ \A j \in 1..(k - 1) : tokens[j].kind # "TOK_ID" )
      => \A order \in Permutations(DOMAIN tokens[k].str) :
           LET r == MatchTokens(root, Separated(tokens, k, order)).result
           IN r.status = result.status /\ r.keywordValues = result.keywordValues

\* a cluster of two registered boolean flags was parsed with SUCCESS
ClusterParsed ==
  /\ Done /\ result.status = "SUCCESS"
  /\ \E k \in DOMAIN tokens :
       /\ tokens[k].kind = "TOK_FLAG_SHORT" /\ Len(tokens[k].str) = 2
       /\ tokens[k].str[1] # tokens[k].str[2]
       /\ BooleanFlags(root, tokens[k].str)


s_no_bee == <<"-", "-", "n", "o", "-", "b", "e", "e">>

\* C5: with a boolean flag b of long name --bee and default true registered, the
\* command line --no-bee is accepted with SUCCESS and leaves keywordValues[no_b] = true
\* while the entry of b keeps its default true.
NegationAccepted ==
  ( /\ Done /\ argv = <<s_no_bee>>
    /\ \E i \in Declared(root) :
         /\ root.keywordArgs[i].name = <<"b">>
         /\ root.keywordArgs[i].longName = <<"-", "-", "b", "e", "e">>
         /\ root.keywordArgs[i].type = "ARGTYPE_FLAG"
         /\ root.keywordArgs[i].defaultValue = AVBool(TRUE) )
  => /\ result.status = "SUCCESS"
     /\ result.keywordValues[s_no_ \o <<"b">>] = AVBool(TRUE)
     /\ result.keywordValues[<<"b">>] = AVBool(TRUE)

\* the subcommands of cmd that carry the alias
AliasedBy(cmd, alias) ==
  {n \in DOMAIN cmd.subcommands : hasAlias(cmd.subcommands[n], alias)}

\* the result was built by a catch block of ArgumentParser::parse
FromCatchBlock == escaped \/ result.errorMessage.text \in LexErrorKinds

\* C6: for a subcommand with an alias that no sibling shares (as alias or as name), a
\* command line that starts with the alias yields the same status, commandPath,
\* keywordValues and positionalValues as the same line with the alias replaced by the
\* subcommand's name, and the commandPath of a result of the matcher is
\* '<root> <subcommand name>', never the alias.
AliasEqualsName ==
  ( /\ Done /\ argv # <<>>
    /\ argv[1] \notin DOMAIN root.subcommands
    /\ Cardinality(AliasedBy(root, argv[1])) = 1 )
  => LET n == CHOOSE n \in AliasedBy(root, argv[1]) : TRUE
         r == ParseLine(root, JoinArgs(<<n>> \o Tail(argv))).result
     IN /\ r.status = result.status
        /\ r.commandPath = result.commandPath
        /\ r.keywordValues = result.keywordValues
        /\ r.positionalValues = result.positionalValues
        /\ ~FromCatchBlock => result.commandPath = root.name \o <<" ">> \o n

\* a command line that starts with an alias was dispatched and parsed with SUCCESS
AliasDispatched ==
  /\ Done /\ result.status = "SUCCESS"
  /\ argv # <<>> /\ path # <<>>
  /\ argv[1] # path[1]
  /\ AliasedBy(root, argv[1]) = {path[1]}

\* the flag token resolves to the help definition of cmd: -h, --help, or a cluster
\* that reaches the character h through registered boolean flags
ResolvesToHelp(cmd, tok) ==
  IF tok.kind = "TOK_FLAG_SHORT"
  THEN \E k \in DOMAIN tok.str :
         tok.str[k] = "h" /\ BooleanFlags(cmd, SubSeq(tok.str, 1, k - 1))
  ELSE tok.kind = "TOK_FLAG_LONG" /\ tok.str = s_help

HelpStep ==
  ( /\ phase = "matching" /\ cursor < Len(tokens)
    /\ ResolvesToHelp(Active, tokens[cursor + 1]) )
  => /\ phase' = "done"
     /\ result'.status = "HELP_REQUESTED" /\ result'.exitCode = 0
     /\ result'.positionalValues = result.positionalValues
     /\ cursor' <= cursor + 1
     /\ handlerLog' = <<>>
     /\ path' = path

\* C7: at every command level, the step in which the matcher resolves a flag token to
\* the help definition returns HELP_REQUESTED with exit code 0 at once: the cursor
\* passes no later token, the required arguments are not validated and no handler runs.
HelpShortCircuits == [][HelpStep]_vars

\* help was requested in a subcommand that has a handler and lacks a required option,
\* with a token left behind the help flag
HelpInSubcommand ==
  /\ Done /\ result.status = "HELP_REQUESTED" /\ result.exitCode = 0
  /\ path # <<>> /\ Active.handler # <<>>
  /\ MissingKeywords(Active, seen) # {}
  /\ cursor + 1 < Len(tokens)
  /\ handlerLog = <<>>

\* C8: every matching failure is returned as a ParseResult with status PARSE_ERROR, a
\* non-empty errorMessage and exit code 1; no exception leaves Command::parse.
FailuresAreReturned ==
  Done =>
    /\ ~escaped
    /\ result.status = "PARSE_ERROR" =>
         result.exitCode = 1 /\ result.errorMessage.text # ""

\* C9: every main-loop iteration that does not return advances the cursor, so that
\* every parse runs to completion.
EveryIterationAdvances ==
  [][(phase = "matching" /\ phase' = "matching" /\ steps' = steps + 1)
       => cursor' > cursor]_vars

\* the loop of lexAll has ended with the tokens or with a LexError, or its next
\* nextToken call yields a token or a LexError
LexStateInvariant ==
  /\ lexState \in {"lexing", "done"} \cup LexErrorKinds
  /\ lexPos <= Len(code)
  /\ \A i \in DOMAIN lexTokens :
       (lexTokens[i].kind = "TOK_EOF") = (lexState = "done" /\ i = Len(lexTokens))
  /\ lexState = "done" => lexTokens # <<>>
  /\ lexState = "lexing" => LexStep(code, lexPos).err \in {"NONE"} \cup LexErrorKinds

\* an iteration of the loop ends it or moves the cursor forward, and a nextToken call
\* on a character other than the end marker consumes at least one character
NextTokenConsumes ==
  /\ lexState = "lexing" => (lexState' # "lexing" \/ lexPos' > lexPos)
  /\ (lexState = "lexing" /\ Current(code, lexPos) # NUL)
       => (lexState' \in LexErrorKinds \/ lexPos' > lexPos)

\* C10: tokenize is total and terminating: on every buffer each iteration of lexAll
\* is defined and either ends the loop or moves the cursor, which never passes the
\* end of the buffer; the loop ends with a token sequence whose last token, and only
\* its last, is TOK_EOF, or with a LexError; every nextToken call on a character
\* other than the end marker consumes at least one character.
TokenizeTerminates == [](LexStateInvariant) /\ [][NextTokenConsumes]_vars

\* a buffer of several tokens was lexed to its end
SeveralTokensLexed ==
  /\ lexState = "done" /\ Len(lexTokens) >= 3
  /\ lexPos = Len(code)

-----------------------------------------------------------------------------
(* MULTIPLE arguments *)

\* the position of the first flag token at or after position from, the end of the
\* tokens when there is none
NextFlag(toks, from) ==
  Least({i \in from..Len(toks) : i = Len(toks) \/ isFlagToken(toks, i)})

\* a value token as a string: a string literal decoded, any other token as written
Text(tok) == IF tok.kind = "TOK_STR_LIT" THEN getStrLitValue(tok.str) ELSE print(tok)

\* the tokens at positions from..(to - 1) as strings
Texts(toks, from, to) == [i \in 1..(to - from) |-> Text(toks[from + i])]

\* the iteration is on a flag token that names the MULTIPLE option at index m of the
\* running command and is followed by a value token
OnMultipleOption(m) ==
  /\ phase = "matching" /\ cursor + 1 < Len(tokens)
  /\ isFlagKind(tokens[cursor + 1].kind)
  /\ ~(tokens[cursor + 1].kind = "TOK_FLAG_SHORT" /\ Len(tokens[cursor + 1].str) > 1)
  /\ m = findKeywordArg(Active, tokens[cursor + 1].str,
                        tokens[cursor + 1].kind = "TOK_FLAG_SHORT")
  /\ m # 0
  /\ Active.keywordArgs[m].type = "ARGTYPE_MULTIPLE"
  /\ ~isFlagToken(tokens, cursor + 1)

\* the iteration is on a value token that falls to a MULTIPLE positional
OnMultiplePositional ==
  /\ phase = "matching" /\ cursor < Len(tokens)
  /\ ~isFlagKind(tokens[cursor + 1].kind)
  /\ ~(tokens[cursor + 1].kind = "TOK_ID"
       /\ ( matchSubcommand(Active, tokens[cursor + 1].str).found
            \/ matchSubcommand(Active, tokens[cursor + 1].str).ambiguous ))
  /\ posIdx < Len(Active.positionalArgs)
  /\ Active.positionalArgs[posIdx + 1].type = "ARGTYPE_MULTIPLE"

\* the tokens at positions (from + 1)..to are identifiers or literals, the kinds
\* parseTokenValue has a value for
ValueTokens(from, to) ==
  \A i \in (from + 1)..to :
    tokens[i].kind \in {"TOK_ID", "TOK_STR_LIT", "TOK_INT_LIT", "TOK_FLOAT_LIT",
                        "TOK_TRUE", "TOK_FALSE"}

MultipleOptionStep ==
  \A m \in DOMAIN Active.keywordArgs :
    (OnMultipleOption(m) /\ ValueTokens(cursor + 1, NextFlag(tokens, cursor + 1))) =>
      LET name == Active.keywordArgs[m].name
          old == result.keywordValues[name]
          vec == IF isStringVector(old) THEN old.sv ELSE <<>>
          stop == NextFlag(tokens, cursor + 1)
      IN /\ phase' = "matching" /\ cursor' = stop
         /\ result'.keywordValues[name] =
              AVStringVector(vec \o Texts(tokens, cursor + 1, stop))

MultiplePositionalStep ==
  (OnMultiplePositional /\ ValueTokens(cursor, NextFlag(tokens, cursor))) =>
    LET stop == NextFlag(tokens, cursor)
    IN /\ phase' = "matching" /\ cursor' = stop
       /\ result'.positionalValues =
            Append(result.positionalValues, AVStringVector(Texts(tokens, cursor, stop)))

\* C11: a MULTIPLE keyword option or MULTIPLE positional consumes all consecutive
\* non-flag tokens that follow, as strings, up to the next flag token or the end of
\* input, and its string list is exactly these values in command-line order (for an
\* option, after the values of its earlier occurrences); stated for value tokens that
\* are identifiers or literals.
MultipleTakesAllValues == [][MultipleOptionStep /\ MultiplePositionalStep]_vars

\* the values are all identifiers or string literals
PlainValues(from, to) ==
  \A i \in (from + 1)..to : tokens[i].kind \in {"TOK_ID", "TOK_STR_LIT"}

\* what the greedy loops do keep: a run of identifier and string-literal tokens is
\* taken whole and in order
MultipleTakesPlainValues ==
  [][ /\ \A m \in DOMAIN Active.keywordArgs :
           (OnMultipleOption(m) /\ PlainValues(cursor + 1, NextFlag(tokens, cursor + 1)))
             => MultipleOptionStep
      /\ (OnMultiplePositional /\ PlainValues(cursor, NextFlag(tokens, cursor)))
           => MultiplePositionalStep ]_vars

-----------------------------------------------------------------------------
(* Value coercion: the matcher on one declared argument and value tokens of every kind *)

s_o == <<"-", "o">>

\* a command with one valued option, or with one positional, of each accepted type
ValueTrees ==
  { addKeywordArg(NewCommand(s_app), <<"o">>, s_o, <<>>, t, FALSE, AVNone).cmd :
      t \in {"ARGTYPE_SINGLE", "ARGTYPE_MULTIPLE"} }
  \cup
  { addPositionalArg(NewCommand(s_app), <<"p">>, t, FALSE, AVNone).cmd :
      t \in {"ARGTYPE_SINGLE", "ARGTYPE_MULTIPLE", "ARGTYPE_POSITIONAL"} }

\* value words: integers of each base, floats, booleans, strings, identifiers, a
\* keyword and punctuation
ValueMenu ==
  { <<"7">>,
    <<"0", "x", "1", "f">>,
    <<"0", "b", "1", "0">>,
    <<"1", ".", "5">>,
    <<"1", "e", "1">>,
    <<"t", "r", "u", "e">>,
    <<"f", "a", "l", "s", "e">>,
    <<"\"", "a", "\\", "n", "\"">>,
    <<"c">>,
    <<"a", ".", "b">>,
    <<"i", "f">>,
    <<"+">> }

\* command lines of one or two value words, after the option's flag if the command
\* has the option
ValueLines(cmd) ==
  LET values == UNION {[1..n -> ValueMenu] : n \in 1..2}
  IN IF Declared(cmd) = {} THEN values ELSE {<<s_o>> \o v : v \in values}

InitValue ==
  /\ root \in ValueTrees /\ regs = 1 /\ lastCall = "accepted"
  /\ NoParse
  /\ LexIdle

StartValueParse == StartParseOf(ValueLines(root))

NextValue ==
  \/ StartValueParse
  \/ ParseFlagToken
  \/ ParsePositionalToken
  \/ FinishParse

SpecValue == InitValue /\ [][NextValue]_vars

\* the ArgValue the coercion rule assigns to a value token for a declared type
Coerced(tok, type) ==
  LET native == type \in {"ARGTYPE_SINGLE", "ARGTYPE_POSITIONAL"}
  IN CASE tok.kind = "TOK_INT_LIT" ->
            IF native THEN AVInt(tok.value) ELSE AVString(Text(tok))
       [] tok.kind = "TOK_FLOAT_LIT" ->
            IF native THEN AVDouble(tok.str) ELSE AVString(Text(tok))
       [] tok.kind \in {"TOK_TRUE", "TOK_FALSE"} ->
            IF native THEN AVBool(tok.kind = "TOK_TRUE") ELSE AVString(Text(tok))
       [] tok.kind = "TOK_STR_LIT" -> AVString(getStrLitValue(tok.str))
       [] tok.kind = "TOK_ID" -> AVString(tok.str)
       [] OTHER -> AVNone

\* the matcher is about to convert the token at position at (0-based) for an argument
\* of the declared type
ConvertsAt(at, type) ==
  /\ phase = "matching" /\ cursor < Len(tokens)
  /\ \/ /\ at = cursor + 1 /\ at < Len(tokens)
        /\ tokens[cursor + 1].kind = "TOK_FLAG_SHORT" /\ tokens[cursor + 1].str = <<"o">>
        /\ ~isFlagToken(tokens, at)
        /\ \E i \in Declared(Active) : Active.keywordArgs[i].type = type
     \/ /\ at = cursor
        /\ ~isFlagToken(tokens, at)
        /\ posIdx < Len(Active.positionalArgs)
        /\ Active.positionalArgs[posIdx + 1].type = type

ArgTypes == {"ARGTYPE_FLAG", "ARGTYPE_SINGLE", "ARGTYPE_MULTIPLE", "ARGTYPE_POSITIONAL"}

\* at every conversion the matcher makes, parseTokenValue returns the coerced value
CoercionAtCall ==
  \A at \in 0..Len(tokens) : \A type \in ArgTypes :
    ConvertsAt(at, type) =>
      parseTokenValue(tokens[at + 1], type) = Value(Coerced(tokens[at + 1], type))

\* a token without a value ends the parse with the invalid-value error
InvalidValueReported ==
  \A at \in 0..Len(tokens) : \A type \in ArgTypes :
    (ConvertsAt(at, type) /\ Coerced(tokens[at + 1], type) = AVNone)
      => /\ phase' = "done" /\ result'.status = "PARSE_ERROR"
         /\ result'.errorMessage.text \in {"Invalid value for option ",
                                           "Invalid value for positional argument "}

\* C12: integer, float and boolean literal tokens become the native int/double/bool
\* ArgValue when the declared type is SINGLE or POSITIONAL and their string
\* representation when it is MULTIPLE; string literals become their escape-decoded
\* string; identifiers their text; any other token kind yields a none ArgValue that
\* the caller reports as an invalid-value PARSE_ERROR.
ValueCoercion == [](CoercionAtCall) /\ [][InvalidValueReported]_vars

\* the coercion rule where the code keeps it: types SINGLE and POSITIONAL, and
\* identifiers and string literals for MULTIPLE
CoercionOfNativeTypes ==
  \A at \in 0..Len(tokens) : \A type \in ArgTypes :
    ( /\ ConvertsAt(at, type)
      /\ \/ type # "ARGTYPE_MULTIPLE"
         \/ tokens[at + 1].kind \notin {"TOK_INT_LIT", "TOK_FLOAT_LIT", "TOK_TRUE", "TOK_FALSE"} )
    => parseTokenValue(tokens[at + 1], type) = Value(Coerced(tokens[at + 1], type))

-----------------------------------------------------------------------------
(* Defaults *)

\* the default an addKeywordArg call of the menu declares for the name: the given
\* one, or false for a FLAG registered without one
DeclaredDefault(k) == IF k[4] = "ARGTYPE_FLAG" /\ isNone(k[6]) THEN AVBool(FALSE) ELSE k[6]

\* C13: in every SUCCESS result each keyword argument that was not supplied has
\* exactly its declared default (false for a FLAG registered without an explicit
\* default), and each non-required positional that was not supplied has its declared
\* default at its declaration index in positionalValues.
UnsuppliedHaveDefaults ==
  (Done /\ result.status = "SUCCESS") =>
    /\ \A i \in Declared(Active) :
         LET arg == Active.keywordArgs[i]
         IN arg.name \notin seen =>
              /\ arg.name \in DOMAIN result.keywordValues
              /\ result.keywordValues[arg.name] = arg.defaultValue
              /\ arg.type = "ARGTYPE_FLAG" => ~isNone(result.keywordValues[arg.name])
              /\ path = <<>> =>
                   \A k \in KeywordMenu :
                     k[1] = arg.name => result.keywordValues[arg.name] = DeclaredDefault(k)
    /\ Len(result.positionalValues) = Len(Active.positionalArgs)
    /\ \A j \in (posIdx + 1)..Len(Active.positionalArgs) :
         /\ ~Active.positionalArgs[j].required
         /\ result.positionalValues[j] = Active.positionalArgs[j].defaultValue
         /\ path = <<>> =>
              \A k \in PositionalMenu :
                k[1] = Active.positionalArgs[j].name => result.positionalValues[j] = k[4]

\* a SUCCESS in which a flag registered without a default was not given and reads
\* false, and an optional positional was not given and reads its default
DefaultsReturned ==
  /\ Done /\ result.status = "SUCCESS" /\ path = <<>>
  /\ <<"a">> \in DOMAIN result.keywordValues /\ <<"a">> \notin seen
  /\ result.keywordValues[<<"a">>] = AVBool(FALSE)
  /\ posIdx < Len(Active.positionalArgs)
  /\ result.positionalValues[posIdx + 1] = AVString(<<"v">>)

-----------------------------------------------------------------------------
(* The registration API alone: every kind of call, accepted and rejected *)

\* addKeywordArg calls: those of KeywordMenu, reserved names and prefixes, names that
\* exist once one of the others is registered, and a long name given without dashes
KeywordCalls ==
  KeywordMenu \cup
  { <<s_no_ \o <<"b">>, <<>>, <<>>, "ARGTYPE_FLAG", FALSE, AVNone>>,
    <<<<"n">>, <<>>, s_no_bee, "ARGTYPE_FLAG", FALSE, AVNone>>,
    <<<<"c">>, <<"-", "a">>, <<>>, "ARGTYPE_FLAG", FALSE, AVNone>>,
    <<<<"e">>, <<>>, <<"-", "-", "b", "e", "e">>, "ARGTYPE_FLAG", FALSE, AVBool(TRUE)>>,
    <<<<"a">>, <<"-", "x">>, <<>>, "ARGTYPE_SINGLE", FALSE, AVNone>>,
    <<<<"g">>, <<"-", "h">>, <<>>, "ARGTYPE_FLAG", FALSE, AVNone>>,
    <<<<"i">>, <<>>, <<"-", "-">> \o s_help, "ARGTYPE_FLAG", FALSE, AVNone>>,
    <<<<"w">>, <<>>, <<"w">>, "ARGTYPE_FLAG", FALSE, AVBool(TRUE)>> }

\* subcommands as built before addSubcommand: those of SubcommandMenu, one whose name
\* is the alias of commitCommand, and one whose alias is the name of commitCommand
SubcommandCalls ==
  SubcommandMenu \cup
  { NewCommand(<<"c", "i">>),
    addAlias(NewCommand(<<"e">>), <<"c">>).cmd }

AliasCalls == {<<"c", "i">>, <<"d">>, <<"c">>, <<"x">>}

InitReg ==
  /\ root = NewCommand(s_app) /\ regs = 0 /\ lastCall = "none"
  /\ NoParse
  /\ LexIdle

RegKeywordArg ==
  \E k \in KeywordCalls :
    RegisterWithin(addKeywordArg(root, k[1], k[2], k[3], k[4], k[5], k[6]), MaxCalls)

RegPositionalArg ==
  \E k \in PositionalMenu :
    RegisterWithin(addPositionalArg(root, k[1], k[2], k[3], k[4]), MaxCalls)

RegSubcommand ==
  \E sub \in SubcommandCalls : RegisterWithin(addSubcommand(root, sub), MaxCalls)

\* addAlias on the root command
RegAlias == \E alias \in AliasCalls \cup {s_app} : RegisterWithin(addAlias(root, alias), MaxCalls)

\* a call on a subcommand through the shared pointer the caller still holds
OnSubcommand(n, r) ==
  RegisterWithin([cmd |-> [root EXCEPT !.subcommands[n] = r.cmd], threw |-> r.threw],
                 MaxCalls)

RegSubAlias ==
  \E n \in DOMAIN root.subcommands : \E alias \in AliasCalls :
    OnSubcommand(n, addAlias(root.subcommands[n], alias))

RegSubKeywordArg ==
  \E n \in DOMAIN root.subcommands : \E k \in KeywordCalls :
    OnSubcommand(n, addKeywordArg(root.subcommands[n], k[1], k[2], k[3], k[4], k[5], k[6]))

\* addSubcommand on a registered subcommand: a command can be registered under the
\* root and under a sibling
RegSubSubcommand ==
  \E n \in DOMAIN root.subcommands : \E sub \in SubcommandCalls :
    OnSubcommand(n, addSubcommand(root.subcommands[n], sub))

NextReg ==
  \/ RegKeywordArg
  \/ RegPositionalArg
  \/ RegSubcommand
  \/ RegAlias
  \/ RegSubAlias
  \/ RegSubKeywordArg
  \/ RegSubSubcommand

SpecReg == InitReg /\ [][NextReg]_vars

\* the commands of the tree
RECURSIVE AllCommands(_)
AllCommands(cmd) ==
  {cmd} \cup UNION {AllCommands(cmd.subcommands[n]) : n \in DOMAIN cmd.subcommands}

KeywordArgsDistinct(cmd) ==
  LET kw == cmd.keywordArgs
  IN \A i, j \in DOMAIN kw :
       i < j =>
         /\ kw[i].name # kw[j].name
         /\ kw[i].shortName # <<>> => kw[i].shortName # kw[j].shortName
         /\ kw[i].longName # <<>> => kw[i].longName # kw[j].longName

\* the call k names a reserved name or prefix, or a name the command already has
Reserved(cmd, k) ==
  \/ k[1] = s_help
  \/ StartsWith(k[1], s_no_)
  \/ StartsWith(k[3], s_dd_no_)
  \/ \E i \in DOMAIN cmd.keywordArgs :
       \/ cmd.keywordArgs[i].name = k[1]
       \/ k[2] # <<>> /\ cmd.keywordArgs[i].shortName = k[2]
       \/ k[3] # <<>> /\ cmd.keywordArgs[i].longName = k[3]

\* C14: after any sequence of addKeywordArg calls, accepted or rejected, the keyword
\* arguments of a command have pairwise distinct names, pairwise distinct non-empty
\* short names and pairwise distinct non-empty long names, help and negation
\* arguments included; a call with the name help, a name starting with no_, a long
\* name starting with --no-, or an existing name, short name or long name throws and
\* leaves the command as it was.
KeywordNamesUnique ==
  \A cmd \in AllCommands(root) :
    /\ KeywordArgsDistinct(cmd)
    /\ \A k \in KeywordCalls :
         Reserved(cmd, k) =>
           LET r == addKeywordArg(cmd, k[1], k[2], k[3], k[4], k[5], k[6])
           IN r.threw /\ r.cmd = cmd

\* a call was rejected on a command that holds a flag, its negation and another argument
RejectedAfterNegation ==
  /\ lastCall = "rejected"
  /\ Len(root.keywordArgs) >= 4
  /\ \E i \in DOMAIN root.keywordArgs : StartsWith(root.keywordArgs[i].name, s_no_)
  /\ \E k \in KeywordCalls : Reserved(root, k) /\ k[1] # s_help /\ ~StartsWith(k[1], s_no_)
                              /\ ~StartsWith(k[3], s_dd_no_)

\* no subcommand of cmd has the name or an alias of a sibling as its name or among
\* its aliases, and no subcommand has its own name among its aliases
SiblingsDistinct(cmd) ==
  LET subs == cmd.subcommands
  IN /\ \A n \in DOMAIN subs : subs[n].name = n
     /\ \A n, o \in DOMAIN subs :
          n # o =>
            /\ ~hasAlias(subs[o], n)
            /\ \A i \in DOMAIN subs[n].aliases : ~hasAlias(subs[o], subs[n].aliases[i])

\* C15: after any sequence of addSubcommand and addAlias calls, addAlias on an already
\* registered command included, no subcommand's name equals a sibling's name or alias,
\* no alias is shared by two siblings, and no command's alias equals its own name.
SubcommandNamesUnique ==
  \A cmd \in AllCommands(root) :
    /\ SiblingsDistinct(cmd)
    /\ ~hasAlias(cmd, cmd.name)

\* what addSubcommand itself keeps: a registration that is accepted adds no collision
AddSubcommandKeepsSiblingsDistinct ==
  SiblingsDistinct(root) =>
    \A sub \in SubcommandCalls :
      LET r == addSubcommand(root, sub)
      IN /\ r.threw => r.cmd = root
         /\ ~r.threw => SiblingsDistinct(r.cmd)

HelpArgs(cmd) == {i \in DOMAIN cmd.keywordArgs : cmd.keywordArgs[i].isHelpFlag}

\* C16: every command of the tree, root or subcommand, carries exactly one help
\* ArgumentDef (name help, -h, --help, isHelpFlag set) after construction and after
\* any sequence of registration calls, a command registered more than once included.
ExactlyOneHelp ==
  \A cmd \in AllCommands(root) :
    /\ Cardinality(HelpArgs(cmd)) = 1
    /\ \A i \in DOMAIN cmd.keywordArgs :
         (cmd.keywordArgs[i].name = s_help \/ cmd.keywordArgs[i].shortName = <<"-", "h">>
            \/ cmd.keywordArgs[i].longName = <<"-", "-">> \o s_help)
           => cmd.keywordArgs[i] = HelpDef

\* a subcommand that is registered under the root and under a sibling, on a root with
\* arguments of its own
RegisteredTwice ==
  /\ Len(root.keywordArgs) >= 1
  /\ \E n, o \in DOMAIN root.subcommands :
       /\ n # o
       /\ o \in DOMAIN root.subcommands[n].subcommands
       /\ root.subcommands[n].subcommands[o] = root.subcommands[o]

-----------------------------------------------------------------------------
(* Frame of a parse *)

\* a step of a parse: every step but a registration call
ParseStep == ~(phase = "ready" /\ phase' = "ready")

TreeUnchanged == ParseStep => root' = root

\* the returned result is the one the command line has on this tree, whatever was
\* parsed before
ResultOfLine == Done => result = ParseLine(root, JoinArgs(argv)).result

\* C17: matching never modifies the Command tree: every step of every parse leaves
\* the keyword arguments, positional arguments, subcommands and aliases of every
\* command unchanged, and the result of a parse is a function of the tree and the
\* command line only, so that sequential parses are independent and parsing the same
\* input twice returns the same status, commandPath, keywordValues and
\* positionalValues.
ParseLeavesTree == [](ResultOfLine) /\ [][TreeUnchanged]_vars

\* a parse on a tree with a subcommand has dispatched, run the handler and returned
ParsedOnTree ==
  /\ Done /\ lastCall = "parse" /\ result.status = "SUCCESS"
  /\ path # <<>> /\ handlerLog # <<>> /\ Len(argv) >= 2
  /\ root.subcommands # <<>>

-----------------------------------------------------------------------------
(* Round trip of literals through Token::print *)

LiteralKinds == {"TOK_INT_LIT", "TOK_FLOAT_LIT", "TOK_STR_LIT"}

\* the two tokens have the same kind and an equal payload
SamePayload(t, u) ==
  /\ u.kind = t.kind
  /\ t.kind = "TOK_INT_LIT" => (u.value = t.value /\ u.base = t.base)
  /\ t.kind = "TOK_FLOAT_LIT" => (StrToD(u.str) = StrToD(t.str) /\ u.hasExp = t.hasExp)
  /\ t.kind = "TOK_STR_LIT" => getStrLitValue(u.str) = getStrLitValue(t.str)

\* the printed text of tok tokenizes to one token like tok
RoundTrips(tok) ==
  LET again == tokenize(print(tok))
  IN /\ again.err = "NONE"
     /\ Len(again.tokens) = 2
     /\ SamePayload(tok, again.tokens[1])

\* C18: for every literal the Lexer accepts (decimal, hex and binary integers, floats
\* with and without exponent, escaped strings), printing the token with Token::print
\* and tokenizing the printed text yields a token of the same kind with an equal
\* payload.
PrintRoundTrip ==
  lexState = "done" =>
    \A i \in DOMAIN lexTokens :
      lexTokens[i].kind \in LiteralKinds => RoundTrips(lexTokens[i])

\* the round trip of the literals the printed form keeps: integers, strings, and
\* floats that were written with an exponent
ExactRoundTrip ==
  lexState = "done" =>
    \A i \in DOMAIN lexTokens :
      ( /\ lexTokens[i].kind \in LiteralKinds
        /\ lexTokens[i].kind = "TOK_FLOAT_LIT" => lexTokens[i].hasExp )
      => RoundTrips(lexTokens[i])

-----------------------------------------------------------------------------
(* Dispatch to a subcommand *)

\* result.commandPath of the activation of the command at names below cmd
RECURSIVE CommandPathOf(_, _)
CommandPathOf(cmd, names) ==
  IF names = <<>> THEN cmd.name
  ELSE cmd.name \o <<" ">> \o CommandPathOf(cmd.subcommands[Head(names)], Tail(names))

\* what the subcommand at path returns when it is entered after the token c
SubcommandOutcome(c) ==
  LET above == SubSeq(path, 1, Len(path) - 1)
      sub == CmdAt(root, path)
  IN RunCommand(sub, tokens, Enter(sub, c, CommandPathOf(root, above) \o <<" ">>))

\* the returned result and the handlers that ran are those of the subcommand the
\* identifier token c dispatched to
ReturnedFromSubcommand ==
  (Done /\ path # <<>> /\ ~escaped) =>
    \E c \in 1..Len(tokens) :
      /\ tokens[c].kind = "TOK_ID"
      /\ matchSubcommand(CmdAt(root, SubSeq(path, 1, Len(path) - 1)), tokens[c].str).found
      /\ result = SubcommandOutcome(c).result
      /\ handlerLog = SubcommandOutcome(c).ran

\* once a subcommand is entered, no step of the parse goes back to an ancestor
NoReturnToAncestor ==
  (phase = "matching" /\ phase' # "ready") =>
    (Len(path') >= Len(path) /\ SubSeq(path', 1, Len(path)) = path)

\* C19: once an identifier token dispatches to a subcommand, the ParseResult of that
\* subcommand is returned to the root caller unchanged whatever its status: no
\* ancestor examines another token, validates its own required arguments, adds its
\* own values to the result, or invokes its own handler.
SubcommandResultPropagates == [](ReturnedFromSubcommand) /\ [][NoReturnToAncestor]_vars

\* a subcommand returned SUCCESS below a root command that has a handler of its own,
\* and the only handler that ran is the subcommand's
DispatchedBelowHandler ==
  /\ Done /\ path # <<>> /\ ~escaped
  /\ root.handler # <<>>
  /\ result.status = "SUCCESS"
  /\ handlerLog = <<result.commandPath>>

-----------------------------------------------------------------------------
(* Handlers *)

\* every required argument of cmd was supplied in the activation that has finished
RequiredSupplied(cmd) ==
  /\ \A i \in DOMAIN cmd.keywordArgs :
       (cmd.keywordArgs[i].required /\ ~cmd.keywordArgs[i].isHelpFlag)
         => cmd.keywordArgs[i].name \in seen
  /\ \A i \in DOMAIN cmd.positionalArgs :
       cmd.positionalArgs[i].required => i <= posIdx

\* C20: a handler is invoked only after the main loop and the required-argument
\* validation of its command have finished with status SUCCESS; in a single parse at
\* most one handler runs, that of the deepest matched command, at most once, never on
\* PARSE_ERROR or HELP_REQUESTED, and the result's exitCode is then the handler's
\* return value.
HandlerAfterSuccess ==
  /\ Len(handlerLog) <= 1
  /\ handlerLog # <<>> =>
       /\ Done /\ ~escaped
       /\ result.status = "SUCCESS"
       /\ cursor >= Len(tokens)
       /\ RequiredSupplied(Active)
       /\ handlerLog[1] = CommandPathOf(root, path)
       /\ result.commandPath = handlerLog[1]
       /\ Active.handler # <<>>
       /\ result.exitCode = Active.handler[1]

\* the handler of the root command ran on a line with arguments
RootHandlerRan ==
  /\ Done /\ path = <<>> /\ tokens # <<>>
  /\ handlerLog = <<s_app>>
  /\ result.exitCode = 5

-----------------------------------------------------------------------------
(* The companion negation argument *)

\* the keyword-argument list of the root command grew in this step
KeywordArgAdded ==
  /\ Len(root'.keywordArgs) > Len(root.keywordArgs)
  /\ SubSeq(root'.keywordArgs, 1, Len(root.keywordArgs)) = root.keywordArgs

\* the definitions this step appended
AddedDefs ==
  SubSeq(root'.keywordArgs, Len(root.keywordArgs) + 1, Len(root'.keywordArgs))

\* the companion of the definition p as the claim describes it
CompanionOf(p) ==
  ArgumentDef(s_no_ \o p.name, <<>>, s_dd_no_ \o Substr(p.longName, 2),
              "ARGTYPE_FLAG", FALSE, AVBool(FALSE), FALSE)

FlagDefaultTrue(p) == p.type = "ARGTYPE_FLAG" /\ p.defaultValue = AVBool(TRUE)

\* the step leaves the list with the new definition p and, exactly when negated
\* holds, its companion
AddsWithCompanionWhen(negated) ==
  /\ SubSeq(root'.keywordArgs, 1, Len(root.keywordArgs)) = root.keywordArgs
  /\ AddedDefs = IF negated THEN <<AddedDefs[1], CompanionOf(AddedDefs[1])>>
                 ELSE <<AddedDefs[1]>>

\* C21: addKeywordArg auto-registers a companion negation argument exactly when the
\* new argument is FLAG-typed, its default is true and it has a long name: the
\* companion is a non-required FLAG named no_<name> with long name --no-<long name
\* without the leading dashes>, no short name and default false; in every other case
\* exactly one ArgumentDef is added.
NegationForEveryLongName ==
  [][root'.keywordArgs # root.keywordArgs =>
       AddsWithCompanionWhen(FlagDefaultTrue(AddedDefs[1])
                             /\ AddedDefs[1].longName # <<>>)]_vars

\* C21 as the code has it: the companion is registered exactly when the new argument
\* is FLAG-typed, its default is true and its long name begins with the two dashes;
\* a long name that was given without the dashes gets no companion.
NegationForDashedLongName ==
  [][root'.keywordArgs # root.keywordArgs =>
       AddsWithCompanionWhen(FlagDefaultTrue(AddedDefs[1])
                             /\ StartsWith(AddedDefs[1].longName, <<"-", "-">>))]_vars

\* a flag with default true and a dashed long name is registered with its companion,
\* next to a flag with default true whose long name has no dashes and no companion
CompanionRegistered ==
  LET kw == root.keywordArgs
  IN /\ \E i \in DOMAIN kw : kw[i].name = s_no_ \o <<"b">> /\ kw[i].longName = s_no_bee
     /\ \E i \in DOMAIN kw : kw[i].name = <<"w">>
     /\ ~\E i \in DOMAIN kw : kw[i].name = s_no_ \o <<"w">>

-----------------------------------------------------------------------------
(* Clusters of short flags *)

\* the keyword arguments a command of the cluster specification may have: two flags
\* (one with a negation companion) and a valued option
ClusterDefs ==
  << <<<<"a">>, <<"-", "a">>, <<>>, "ARGTYPE_FLAG", FALSE, AVNone>>,
     <<<<"b">>, <<"-", "b">>, <<"-", "-", "b", "e", "e">>, "ARGTYPE_FLAG", FALSE, AVBool(TRUE)>>,
     <<<<"o">>, s_o, <<>>, "ARGTYPE_SINGLE", FALSE, AVNone>> >>

\* cmd after the addKeywordArg calls of ClusterDefs whose index is in chosen
RECURSIVE WithClusterDefs(_, _, _)
WithClusterDefs(cmd, i, chosen) ==
  IF i > Len(ClusterDefs) THEN cmd
  ELSE LET k == ClusterDefs[i]
       IN WithClusterDefs(IF i \in chosen
                          THEN addKeywordArg(cmd, k[1], k[2], k[3], k[4], k[5], k[6]).cmd
                          ELSE cmd,
                          i + 1, chosen)

ClusterTrees ==
  {WithClusterDefs(NewCommand(s_app), 1, chosen) : chosen \in SUBSET DOMAIN ClusterDefs}

\* short-flag words of two characters: flags, the valued option, help, and a
\* character that is never registered
ClusterWords == {<<"-", c, d>> : c, d \in {"a", "b", "o", "h", "x"}}

ClusterLines == UNION {[1..n -> ClusterWords] : n \in 1..2}

InitCluster ==
  /\ root \in ClusterTrees /\ regs = 0 /\ lastCall = "none"
  /\ NoParse
  /\ LexIdle

StartClusterParse == StartParseOf(ClusterLines)

NextCluster ==
  \/ StartClusterParse
  \/ ParseFlagToken
  \/ FinishParse

SpecCluster == InitCluster /\ [][NextCluster]_vars

\* the next token is a short-flag token with a name of more than one character
AtCluster ==
  /\ InLoop
  /\ tokens[cursor + 1].kind = "TOK_FLAG_SHORT"
  /\ Len(tokens[cursor + 1].str) > 1

ClusterName == tokens[cursor + 1].str

\* what the character c of a cluster resolves to in the active command: "unknown",
\* "help", "valued" (a registered argument that is not a FLAG) or "flag"
Resolves(c) ==
  LET m == findKeywordArg(Active, <<c>>, TRUE)
  IN IF m = 0 THEN "unknown"
     ELSE IF Active.keywordArgs[m].isHelpFlag THEN "help"
     ELSE IF Active.keywordArgs[m].type # "ARGTYPE_FLAG" THEN "valued"
     ELSE "flag"

Some(name, what) == \E i \in DOMAIN name : Resolves(name[i]) = what

UnknownInCluster == "Unknown option in combined flags: -"

ValuedInCluster == "Option - requires a value and cannot be combined."

\* C22: a short-flag token whose name is longer than one character is treated as a
\* cluster: if any character does not resolve to a registered short name the result
\* is a PARSE_ERROR for an unknown option, if any character resolves to a non-FLAG
\* argument the result is a PARSE_ERROR whose message says the option requires a
\* value and cannot be combined (the first such character deciding between the two),
\* and a cluster never yields SUCCESS unless every character resolves to a FLAG-typed
\* argument.
ClusterFailsOnAnyCharacter ==
  [][AtCluster =>
       /\ (Some(ClusterName, "unknown") \/ Some(ClusterName, "valued")) =>
            /\ result'.status = "PARSE_ERROR"
            /\ result'.errorMessage.text \in {UnknownInCluster, ValuedInCluster}
            /\ ~Some(ClusterName, "valued") => result'.errorMessage.text = UnknownInCluster
            /\ ~Some(ClusterName, "unknown") => result'.errorMessage.text = ValuedInCluster
       /\ result'.status = "SUCCESS" =>
            \A i \in DOMAIN ClusterName : Resolves(ClusterName[i]) \in {"flag", "help"}]_vars

\* the first character of the cluster that is not a plain flag, 0 if there is none
FirstStop(name) ==
  LET stops == {i \in DOMAIN name : Resolves(name[i]) # "flag"}
  IN IF stops = {} THEN 0 ELSE CHOOSE i \in stops : \A j \in stops : i <= j

\* C22 as the code has it: the characters are taken from left to right and the first
\* one that is not a plain flag decides: an unregistered character gives the
\* unknown-option PARSE_ERROR, a non-FLAG argument the requires-a-value PARSE_ERROR,
\* and the help flag HELP_REQUESTED with exit code 0, whatever follows it in the
\* cluster; the parse goes on with status SUCCESS only when every character is a
\* plain flag, and then every one of them is seen and true.
ClusterStopsAtFirstCharacter ==
  [][AtCluster =>
       LET f == FirstStop(ClusterName)
           what == IF f = 0 THEN "flag" ELSE Resolves(ClusterName[f])
       IN /\ what = "unknown" =>
               /\ phase' = "done" /\ result'.status = "PARSE_ERROR"
               /\ result'.errorMessage = Message(UnknownInCluster, <<ClusterName[f]>>)
               /\ result'.exitCode = 1
          /\ what = "valued" =>
               /\ phase' = "done" /\ result'.status = "PARSE_ERROR"
               /\ result'.errorMessage = Message(ValuedInCluster, <<ClusterName[f]>>)
               /\ result'.exitCode = 1
          /\ what = "help" =>
               /\ phase' = "done" /\ result'.status = "HELP_REQUESTED"
               /\ result'.exitCode = 0
          /\ what = "flag" =>
               /\ phase' = "matching" /\ result'.status = "SUCCESS"
               /\ cursor' = cursor + 1
               /\ \A i \in DOMAIN ClusterName :
                    LET n == Active.keywordArgs[findKeywordArg(Active, <<ClusterName[i]>>, TRUE)].name
                    IN n \in seen' /\ result'.keywordValues[n] = AVBool(TRUE)]_vars

\* a cluster failed on a valued option after a flag, and a cluster with the help
\* flag before an unregistered character was a help request
ClusterStopped ==
  /\ Done /\ Len(tokens) = 1 /\ tokens[1].kind = "TOK_FLAG_SHORT"
  /\ \/ tokens[1].str = <<"a", "o">> /\ result.errorMessage.text = ValuedInCluster
     \/ tokens[1].str = <<"h", "x">> /\ result.status = "HELP_REQUESTED"

-----------------------------------------------------------------------------
(* Resolution of subcommand names and aliases *)

\* addAlias calls made on the registered subcommands through the pointers the
\* caller holds: <<subcommand, alias>>
LateAliases ==
  << <<<<"c">>, <<"d">>>>,
     <<<<"d">>, <<"c", "i">>>>,
     <<<<"c">>, <<"x">>>>,
     <<<<"d">>, <<"x">>>> >>

RECURSIVE WithLateAliases(_, _, _)
WithLateAliases(cmd, i, chosen) ==
  IF i > Len(LateAliases) THEN cmd
  ELSE LET n == LateAliases[i][1]
       IN WithLateAliases(IF i \in chosen
                          THEN [cmd EXCEPT !.subcommands[n] =
                                             addAlias(@, LateAliases[i][2]).cmd]
                          ELSE cmd,
                          i + 1, chosen)

\* the root command with both subcommands of SubcommandMenu, with or without an
\* optional positional of its own
DispatchRoots ==
  LET both == addSubcommand(addSubcommand(NewCommand(s_app), commitCommand).cmd,
                            diffCommand).cmd
  IN {both, addPositionalArg(both, <<"p">>, "ARGTYPE_SINGLE", FALSE, AVString(<<"v">>)).cmd}

DispatchTrees ==
  {WithLateAliases(r, 1, chosen) : r \in DispatchRoots, chosen \in SUBSET DOMAIN LateAliases}

DispatchWords == {<<"c">>, <<"c", "i">>, <<"d">>, <<"x">>, s_o}

DispatchLines == UNION {[1..n -> DispatchWords] : n \in 1..2}

InitDispatch ==
  /\ root \in DispatchTrees /\ regs = 0 /\ lastCall = "none"
  /\ NoParse
  /\ LexIdle

StartDispatchParse == StartParseOf(DispatchLines)

NextDispatch ==
  \/ StartDispatchParse
  \/ ParseFlagToken
  \/ DispatchSubcommand
  \/ ParsePositionalToken
  \/ FinishParse

SpecDispatch == InitDispatch /\ [][NextDispatch]_vars

\* the main loop is at an identifier token
AtIdentifier == InLoop /\ tokens[cursor + 1].kind = "TOK_ID"

\* the subcommands of the active command that have the identifier as an alias
AliasOwners == {n \in DOMAIN Active.subcommands :
                hasAlias(Active.subcommands[n], tokens[cursor + 1].str)}

\* the step enters the subcommand n of the active command
Enters(n) ==
  /\ phase' = "matching"
  /\ path' = Append(path, n)
  /\ cursor' = cursor + 1
  /\ result'.commandPath = result.commandPath \o <<" ">> \o n

\* C23: an exact subcommand-name match always wins and is dispatched without
\* consulting aliases; otherwise, if the identifier is an alias of exactly one
\* subcommand that subcommand is dispatched, and if it is an alias of more than one
\* subcommand the parse fails with an ambiguous-alias PARSE_ERROR and no subcommand
\* is entered.
SubcommandResolution ==
  [][AtIdentifier =>
       LET id == tokens[cursor + 1].str
       IN IF id \in DOMAIN Active.subcommands THEN Enters(id)
          ELSE IF Cardinality(AliasOwners) = 1 THEN Enters(CHOOSE n \in AliasOwners : TRUE)
          ELSE IF Cardinality(AliasOwners) > 1
          THEN /\ phase' = "done" /\ path' = path
               /\ result'.status = "PARSE_ERROR"
               /\ result'.errorMessage =
                    Message("Ambiguous alias matches multiple subcommands.", id)
          ELSE path' = path]_vars

\* an identifier that is an alias of both subcommands was refused at the root
AmbiguousAliasRefused ==
  /\ Done /\ path = <<>>
  /\ tokens # <<>> /\ tokens[cursor + 1].str = <<"x">>
  /\ hasAlias(root.subcommands[<<"c">>], <<"x">>)
  /\ hasAlias(root.subcommands[<<"d">>], <<"x">>)
  /\ result.errorMessage.text = "Ambiguous alias matches multiple subcommands."

-----------------------------------------------------------------------------
(* A '-' at a token start *)

\* where the token of this step starts, and the two characters after it
TokenStart == eatWhitespaceAndComments(code, lexPos)

AtMinus == lexState = "lexing" /\ Current(code, TokenStart) = "-"

Ahead1 == Current(code, TokenStart + 1)

Ahead2 == Current(code, TokenStart + 2)

\* the step appended one token of the kind, ending at position e
Yields(kind, e) ==
  /\ lexState' \in {"lexing", "done"}
  /\ Len(lexTokens') = Len(lexTokens) + 1
  /\ lexTokens'[Len(lexTokens')].kind = kind
  /\ lexTokens'[Len(lexTokens')].span = <<TokenStart, e>>
  /\ lexPos' = e

\* the step appended a flag token of the kind whose name starts at position from
YieldsFlag(kind, from) ==
  /\ lexPos' > from
  /\ Yields(kind, lexPos')
  /\ lexTokens'[Len(lexTokens')].str = Slice(code, from, lexPos')
  /\ ~isIdentCont(Current(code, lexPos'))

\* C24: a '-' at a token start is lexed, using at most two characters of lookahead,
\* as exactly one of: a long-flag token (-- followed by an identifier-start
\* character), a bare -- separator token, a short-flag token (- followed by an
\* identifier-start character or a digit, so -5 is a short flag named 5), or the
\* minus operator; it never raises a lexical error.
MinusNeverFails ==
  [][AtMinus =>
       IF Ahead1 = "-"
       THEN IF isIdentStart(Ahead2) THEN YieldsFlag("TOK_FLAG_LONG", TokenStart + 2)
            ELSE Yields("TOK_DOUBLE_MINUS", TokenStart + 2)
       ELSE IF isIdentStart(Ahead1) \/ isAsciiDecDigit(Ahead1)
            THEN YieldsFlag("TOK_FLAG_SHORT", TokenStart + 1)
            ELSE Yields("TOK_MINUS", TokenStart + 1)]_vars

\* C24 as the code has it: a -- that is followed by a digit or a dot is neither a
\* long flag nor the separator, it raises INVALID_CHAR and no token is produced;
\* every other '-' is lexed as stated.
MinusFailsBeforeDigit ==
  [][AtMinus =>
       IF Ahead1 = "-"
       THEN IF isIdentStart(Ahead2) THEN YieldsFlag("TOK_FLAG_LONG", TokenStart + 2)
            ELSE IF isAsciiDecDigit(Ahead2) \/ Ahead2 = "."
            THEN lexState' = "INVALID_CHAR" /\ lexTokens' = lexTokens
            ELSE Yields("TOK_DOUBLE_MINUS", TokenStart + 2)
       ELSE IF isIdentStart(Ahead1) \/ isAsciiDecDigit(Ahead1)
            THEN YieldsFlag("TOK_FLAG_SHORT", TokenStart + 1)
            ELSE Yields("TOK_MINUS", TokenStart + 1)]_vars

\* -1 was lexed as a short flag named 1 and the bare separator was lexed after it
DigitFlagLexed ==
  /\ lexState = "done"
  /\ Len(lexTokens) = 3
  /\ lexTokens[1].kind = "TOK_FLAG_SHORT" /\ lexTokens[1].str = <<"1">>
  /\ lexTokens[2].kind = "TOK_DOUBLE_MINUS"

-----------------------------------------------------------------------------
(* Integer literals of any length *)

\* integer literals around the capacity of num_buffer: a prefix, a run of zeros,
\* and closing digits with or without an underscore
LongLiterals ==
  { prefix \o Zeros(n) \o tail :
      prefix \in {<<>>, <<"0", "x">>, <<"0", "B">>},
      n \in 56..MaxLongZeros,
      tail \in {<<"1">>, <<"1", "_", "0">>, <<"1", "1">>} }

\* integer literals around the largest value the integer type holds
RangeLiterals ==
  { <<"2", "1", "4", "7", "4", "8", "3", "6", "4", "7">>,
    <<"2", "1", "4", "7", "4", "8", "3", "6", "4", "8">>,
    <<"0", "x", "7", "f", "f", "f", "_", "f", "f", "f", "f">>,
    <<"0", "X", "8", "0", "0", "0", "0", "0", "0", "0">>,
    <<"0", "0", "4", "2">>,
    <<"0", "b", "1", "0", "1">> }

InitLong ==
  /\ root = NewCommand(s_app) /\ regs = 0 /\ lastCall = "none"
  /\ NoParse
  /\ code \in LongLiterals \cup RangeLiterals
  /\ lexPos = 0 /\ lexTokens = <<>> /\ lexState = "lexing"

NextLong == NextToken

SpecLong == InitLong /\ [][NextLong]_vars

\* the base the prefix of the literal names
PrefixBase(lit) ==
  IF Len(lit) > 1 /\ lit[1] = "0" /\ lit[2] \in {"x", "X"} THEN HEX
  ELSE IF Len(lit) > 1 /\ lit[1] = "0" /\ lit[2] \in {"b", "B"} THEN BIN
  ELSE DEC

RECURSIVE WithoutUnderscores(_)
WithoutUnderscores(s) ==
  IF s = <<>> THEN <<>>
  ELSE IF Head(s) = "_" THEN WithoutUnderscores(Tail(s))
  ELSE <<Head(s)>> \o WithoutUnderscores(Tail(s))

\* the digits of the literal: the prefix and the underscores removed
DigitsOf(lit) == WithoutUnderscores(IF PrefixBase(lit) = DEC THEN lit ELSE Substr(lit, 2))

\* the number the digits denote, -1 when it does not fit the integer type
RECURSIVE Denoted(_, _, _)
Denoted(digits, radix, acc) ==
  IF digits = <<>> THEN acc
  ELSE IF acc > (LLongMax - DigitVal(Head(digits))) \div radix THEN -1
  ELSE Denoted(Tail(digits), radix, acc * radix + DigitVal(Head(digits)))

Radix(base) == IF base = HEX THEN 16 ELSE IF base = BIN THEN 2 ELSE 10

\* tokenize has finished on the literal with the token of its number, or with the
\* out-of-range error when the number does not fit
LexedAsDenoted(lit) ==
  LET n == Denoted(DigitsOf(lit), Radix(PrefixBase(lit)), 0)
  IN IF n = -1 THEN lexState = "INT_OUT_OF_RANGE"
     ELSE /\ lexState = "done"
          /\ Len(lexTokens) = 2
          /\ lexTokens[1].kind = "TOK_INT_LIT"
          /\ lexTokens[1].value = n
          /\ lexTokens[1].base = PrefixBase(lit)

\* C25: for every integer literal of any length (decimal, 0x/0X hex or 0b/0B binary,
\* with any number of leading zeros and underscore separators), tokenize either
\* produces an integer token whose value equals the number denoted by the digits with
\* underscores removed and whose base matches the prefix, or raises the out-of-range
\* error when that number does not fit; it never produces a token with a different
\* value.
IntegerLiteralValue == lexState # "lexing" => LexedAsDenoted(code)

\* the same for the literals whose prefix and digits fit the 63 characters of
\* num_buffer
BufferedLiteralValue ==
  (lexState # "lexing" /\ Len(WithoutUnderscores(code)) <= NumBufferMax)
    => LexedAsDenoted(code)

-----------------------------------------------------------------------------
(* String literals *)

\* what may follow the opening quote: quotes, backslashes, the characters of valid
\* and invalid escapes, punctuation, a raw newline and the end marker
StringAlphabet == {"\"", "\\", "n", "0", "x", ".", "(", "\n", NUL}

StringInputs ==
  {<<"\"">> \o body : body \in UNION {[1..n -> StringAlphabet] : n \in 0..MaxBodyLen}}

InitString ==
  /\ root = NewCommand(s_app) /\ regs = 0 /\ lastCall = "none"
  /\ NoParse
  /\ code \in StringInputs /\ lexPos = 0 /\ lexTokens = <<>> /\ lexState = "lexing"

NextString == NextToken

SpecString == InitString /\ [][NextString]_vars

ValidEscapes == {"n", "r", "t", "\\", "\"", "0"}

EndsLine(s, i) == i > Len(s) \/ s[i] = NUL \/ s[i] = "\n"

\* what the text s holds first from index i on: the closing quote ("closed" at
\* index at), a newline or the end of input ("unclosed"), or a backslash before a
\* character that is no escape ("unknown")
RECURSIVE FirstEvent(_, _)
FirstEvent(s, i) ==
  IF EndsLine(s, i) THEN [what |-> "unclosed", at |-> i]
  ELSE IF s[i] = "\"" THEN [what |-> "closed", at |-> i]
  ELSE IF s[i] # "\\" THEN FirstEvent(s, i + 1)
  ELSE IF EndsLine(s, i + 1) THEN [what |-> "unclosed", at |-> i + 1]
  ELSE IF s[i + 1] \in ValidEscapes THEN FirstEvent(s, i + 2)
  ELSE [what |-> "unknown", at |-> i + 1]

\* the character an escape stands for
EscapeChar(e) ==
  CASE e = "n" -> "\n" [] e = "r" -> "\r" [] e = "t" -> "\t" [] e = "0" -> NUL
    [] OTHER -> e

\* a raw slice of valid escapes and plain characters with each escape replaced
RECURSIVE Unescaped(_)
Unescaped(raw) ==
  IF raw = <<>> THEN <<>>
  ELSE IF Head(raw) = "\\" /\ Len(raw) > 1
  THEN <<EscapeChar(raw[2])>> \o Unescaped(SubSeq(raw, 3, Len(raw)))
  ELSE <<Head(raw)>> \o Unescaped(Tail(raw))

\* the first nextToken call on the input has returned or thrown
FirstTokenSettled == lexTokens # <<>> \/ lexState \notin {"lexing", "done"}

\* C26: for every input that begins with a double quote, the lexer yields a
\* string-literal token whose raw slice is exactly the characters between the quotes
\* and whose decoded value replaces each escape by its character, if and only if a
\* closing quote is found before any newline or end of input and every backslash is
\* followed by one of n r t \ " 0; a newline or end of input first raises
\* UNCLOSED_STRING, any other escaped character raises UNKNOWN_ESCAPE, and
\* parentheses and dots inside the quotes are not special.
StringLiteralOutcome ==
  FirstTokenSettled =>
    LET ev == FirstEvent(code, 2)
        raw == SubSeq(code, 2, ev.at - 1)
    IN /\ ev.what = "closed" =>
            /\ lexTokens # <<>>
            /\ lexTokens[1].kind = "TOK_STR_LIT"
            /\ lexTokens[1].str = raw
            /\ lexTokens[1].span = <<0, ev.at>>
            /\ getStrLitValue(lexTokens[1].str) = Unescaped(raw)
       /\ ev.what = "unclosed" => (lexTokens = <<>> /\ lexState = "UNCLOSED_STRING")
       /\ ev.what = "unknown" => (lexTokens = <<>> /\ lexState = "UNKNOWN_ESCAPE")

\* a string with a parenthesis and an escape was lexed whole
EscapedStringLexed ==
  /\ lexState = "done"
  /\ code = <<"\"", "(", "\\", "n", "\"">>
  /\ getStrLitValue(lexTokens[1].str) = <<"(", "\n">>

-----------------------------------------------------------------------------
(* Non-required arguments *)

\* the value the finished parse holds for the keyword argument arg, none if it
\* holds no entry
ResolvedKeyword(arg) ==
  IF arg.name \in DOMAIN result.keywordValues THEN result.keywordValues[arg.name]
  ELSE AVNone

\* the value the finished parse holds for the positional argument at index j
ResolvedPositional(j) ==
  IF j <= Len(result.positionalValues) THEN result.positionalValues[j] ELSE AVNone

\* C27: required and defaultValue are jointly consistent: in every SUCCESS result,
\* every non-required keyword or positional argument resolves to a value that is not
\* none, either the parsed value or a declared default, for every argument that the
\* registration API accepts.
NonRequiredResolve ==
  (Done /\ result.status = "SUCCESS") =>
    /\ \A i \in Declared(Active) :
         ~Active.keywordArgs[i].required => ~isNone(ResolvedKeyword(Active.keywordArgs[i]))
    /\ \A j \in DOMAIN Active.positionalArgs :
         ~Active.positionalArgs[j].required => ~isNone(ResolvedPositional(j))

\* the same for the arguments that were declared with a default, and for flags
DefaultedResolve ==
  (Done /\ result.status = "SUCCESS") =>
    /\ \A i \in Declared(Active) :
         (~Active.keywordArgs[i].required /\ ~isNone(Active.keywordArgs[i].defaultValue))
           => ~isNone(ResolvedKeyword(Active.keywordArgs[i]))
    /\ \A j \in DOMAIN Active.positionalArgs :
         (~Active.positionalArgs[j].required /\ ~isNone(Active.positionalArgs[j].defaultValue))
           => ~isNone(ResolvedPositional(j))

-----------------------------------------------------------------------------
(* The token cursor *)

CursorInTokens == cursor <= Len(tokens)

\* a step of a parse never moves the cursor back, and the step that enters a
\* subcommand hands it the cursor just after the dispatching token
CursorAdvances ==
  (phase = "matching" /\ phase' # "ready") =>
    /\ cursor' >= cursor
    /\ path' # path => cursor' = cursor + 1

\* when the parse went through a subcommand, the cursor ArgumentParser::parse sees
\* is the one the subcommand left, past the dispatching token c
CursorOfSubcommand ==
  (Done /\ path # <<>> /\ ~escaped) =>
    \E c \in 1..Len(tokens) :
      /\ tokens[c].kind = "TOK_ID"
      /\ matchSubcommand(CmdAt(root, SubSeq(path, 1, Len(path) - 1)), tokens[c].str).found
      /\ cursor = SubcommandOutcome(c).cursor
      /\ cursor >= c

\* C28: the token cursor is a single index shared by reference through the
\* subcommand recursion: during any parse it never decreases, it never exceeds the
\* number of tokens, and every token a subcommand consumes is seen as consumed by its
\* ancestors and by ArgumentParser.parse after the call returns.
CursorIsShared ==
  [](CursorInTokens /\ CursorOfSubcommand) /\ [][CursorAdvances]_vars

\* a subcommand consumed its option and the value, and the parse returned with every
\* token consumed
SubcommandConsumedTokens ==
  /\ Done /\ path # <<>> /\ ~escaped
  /\ Len(tokens) = 3 /\ cursor = 3
  /\ tokens[1].kind = "TOK_ID"

-----------------------------------------------------------------------------
(* Leftover tokens *)

LeftoverMessage == "Unexpected arguments starting from: "

\* a SUCCESS result is returned with every token consumed, and no result carries the
\* message of the leftover branch of ArgumentParser::parse
SuccessConsumesAll ==
  Done =>
    /\ (result.status = "SUCCESS" /\ ~escaped) => cursor = Len(tokens)
    /\ result.errorMessage.text # LeftoverMessage

\* the main loop is at a token that is neither a flag nor a subcommand name or alias
AtPlainToken ==
  /\ InLoop
  /\ ~isFlagKind(tokens[cursor + 1].kind)
  /\ tokens[cursor + 1].kind = "TOK_ID" =>
       LET m == matchSubcommand(Active, tokens[cursor + 1].str)
       IN ~m.found /\ ~m.ambiguous

\* a token without a positional slot is reported by Command::parse as an unexpected
\* argument, and a token that is no value for its slot as an invalid value
ExtraTokenReported ==
  AtPlainToken =>
    LET token == tokens[cursor + 1]
        slot == posIdx < Len(Active.positionalArgs)
        parsed == parseTokenValue(token, Active.positionalArgs[posIdx + 1].type)
    IN /\ ~slot =>
            /\ phase' = "done" /\ result'.status = "PARSE_ERROR"
            /\ result'.errorMessage = Message("Unexpected argument: ", print(token))
       /\ (slot /\ ~parsed.threw /\ isNone(parsed.v)) =>
            /\ phase' = "done" /\ result'.status = "PARSE_ERROR"
            /\ result'.errorMessage.text = "Invalid value for positional argument "

\* C29: whenever the root Command.parse returns SUCCESS the cursor equals the number
\* of tokens, i.e. every token has been consumed; consequently the 'Unexpected
\* arguments starting from' branch of ArgumentParser.parse is unreachable and every
\* leftover token is reported by Command.parse itself as an unexpected-argument or
\* invalid-value error.
NoLeftoverAfterSuccess == [](SuccessConsumesAll) /\ [][ExtraTokenReported]_vars

\* a token after the last positional slot was reported as an unexpected argument
ExtraTokenRefused ==
  /\ Done /\ Len(tokens) = 2 /\ cursor = 1 /\ posIdx = 1
  /\ result.errorMessage.text = "Unexpected argument: "


\* ---------------------------------------------------------------------------
\* Subcommand names at the head of an iteration and inside a greedy run
\* ---------------------------------------------------------------------------

\* a subcommand "d" with a MULTIPLE positional and a subcommand of its own
greedyCommand ==
  addSubcommand(addPositionalArg(NewCommand(<<"d">>), <<"r">>, "ARGTYPE_MULTIPLE",
                                 FALSE, AVNone).cmd,
                commitCommand).cmd

\* the root command with the subcommands "c" and "d" and any of: a SINGLE
\* positional, a MULTIPLE positional after it, a MULTIPLE option
GreedyRoots ==
  LET both == addSubcommand(addSubcommand(NewCommand(s_app), commitCommand).cmd,
                            greedyCommand).cmd
      withP(c, on) == IF on THEN addPositionalArg(c, <<"p">>, "ARGTYPE_SINGLE", FALSE,
                                                  AVString(<<"v">>)).cmd
                      ELSE c
      withR(c, on) == IF on THEN addPositionalArg(c, <<"r">>, "ARGTYPE_MULTIPLE", FALSE,
                                                  AVNone).cmd
                      ELSE c
      withM(c, on) == IF on THEN addKeywordArg(c, <<"m">>, <<"-", "m">>, <<>>,
                                               "ARGTYPE_MULTIPLE", FALSE, AVNone).cmd
                      ELSE c
  IN {withM(withR(withP(both, p), r), m) : p \in BOOLEAN, r \in BOOLEAN, m \in BOOLEAN}

GreedyWords == {<<"7">>, <<"x">>, <<"c">>, <<"c", "i">>, <<"d">>, <<"-", "m">>}

\* words of a command line, in the specification of greedy runs
MaxGreedyWords == 4

GreedyLines == UNION {[1..n -> GreedyWords] : n \in 1..MaxGreedyWords}

InitGreedy ==
  /\ root \in GreedyRoots /\ regs = 0 /\ lastCall = "none"
  /\ NoParse
  /\ LexIdle

StartGreedyParse == StartParseOf(GreedyLines)

NextGreedy ==
  \/ StartGreedyParse
  \/ ParseFlagToken
  \/ DispatchSubcommand
  \/ ParsePositionalToken
  \/ FinishParse

SpecGreedy == InitGreedy /\ [][NextGreedy]_vars

\* an iteration that starts on an identifier resolving to one subcommand enters it,
\* whatever positional slots of the running command are unfilled, and the result
\* starts again without the positional values collected so far
HeadDispatchStep ==
  LET m == matchSubcommand(Active, tokens[cursor + 1].str)
  IN (AtIdentifier /\ m.found) =>
       /\ Enters(m.name)
       /\ posIdx' = 0
       /\ result'.positionalValues = <<>>

\* an iteration on the first value of a MULTIPLE positional takes the run of
\* identifiers and string literals that follows as strings, subcommand names
\* included, and stays in the running command
GreedyPositionalStep ==
  LET stop == NextFlag(tokens, cursor)
  IN (OnMultiplePositional /\ PlainValues(cursor, stop)) =>
       /\ path' = path /\ phase' = "matching" /\ cursor' = stop
       /\ result'.commandPath = result.commandPath
       /\ result'.positionalValues =
            Append(result.positionalValues, AVStringVector(Texts(tokens, cursor, stop)))

\* an iteration on a MULTIPLE option takes the run of identifiers and string
\* literals after the flag as strings, subcommand names included, and stays in the
\* running command
GreedyOptionStep ==
  \A m \in DOMAIN Active.keywordArgs :
    LET stop == NextFlag(tokens, cursor + 1)
        name == Active.keywordArgs[m].name
        old == result.keywordValues[name]
        vec == IF isStringVector(old) THEN old.sv ELSE <<>>
    IN (OnMultipleOption(m) /\ PlainValues(cursor + 1, stop)) =>
         /\ path' = path /\ phase' = "matching" /\ cursor' = stop
         /\ result'.commandPath = result.commandPath
         /\ result'.keywordValues[name] =
              AVStringVector(vec \o Texts(tokens, cursor + 1, stop))

\* C30: subcommand matching takes precedence over positional matching only at the
\* head of a main-loop iteration: an identifier equal to a subcommand name or alias
\* is dispatched as a subcommand even when the running command has unfilled
\* positional slots, and the positional values collected so far are discarded; the
\* same identifier inside the greedy run of a MULTIPLE positional or MULTIPLE option
\* is consumed as a plain string value and no dispatch happens.
DispatchOnlyAtHead ==
  [][HeadDispatchStep /\ GreedyPositionalStep /\ GreedyOptionStep]_vars

\* "7 d x c" with the positionals p and r at the root: "d" is dispatched at the head
\* of the second iteration although r is unfilled, the 7 collected for p is gone
\* from the result, and inside "d" the name "c" of its subcommand follows "x" in the
\* greedy run of r and is kept as a string
SubcommandNameKeptAsValue ==
  /\ Done /\ ~escaped
  /\ argv = << <<"7">>, <<"d">>, <<"x">>, <<"c">> >>
  /\ Len(root.positionalArgs) = 2
  /\ <<"c">> \in DOMAIN CmdAt(root, <<<<"d">>>>).subcommands
  /\ path = <<<<"d">>>>
  /\ result.status = "SUCCESS"
  /\ result.positionalValues = <<AVStringVector(<< <<"x">>, <<"c">> >>)>>


====
